---- MODULE Spec2Model ----
(***************************************************************************)
(* claude-history: the streaming parser of transcript files and project    *)
(* directories (JSONLStreamParser) and the chronological merger of command *)
(* streams (StreamMerger), as state machines.                              *)
(*                                                                         *)
(* An optional value (null / undefined in the source) is a sequence of     *)
(* length 0 or 1.  A string is a sequence of one-character strings.        *)
(* Indices are 1-based; index 0 stands for the source's -1.                *)
(***************************************************************************)
EXTENDS Integers, Sequences, FiniteSets, TLC

\* ------------------------------------------------------------------------
\* Bounds of the model
\* ------------------------------------------------------------------------
MaxStreams == 3      \* streams handed to chronologicalMerge
MaxTotal == 4        \* commands held by all the streams of a merge together
MaxTs == 2           \* distinct timestamps
MaxLines == 3        \* lines of a transcript file
MaxChars == 5        \* characters of a command text given to normalizeBashCommand
MaxFiles == 2        \* transcript files of a project directory
MaxProjLines == 3    \* lines held by all the files of the projects together
MaxProjects == 2     \* project directories handed to mergeProjectStreams
MaxSortedStreams == 2   \* streams of a merge that is followed to its end
MaxSortedTotal == 3     \* commands in those streams, all together

VARIABLES
    streams,        \* merge: the input generators, each [items, throws]
    gens,           \* merge: each generator's position, [pos, finished, pulls]
    streamBuffers,  \* merge: StreamWithBuffer[], each [buffer, exhausted]
    earliest,       \* merge: index of the cursor whose command was yielded last
    mpc,            \* merge: where the merge generator is suspended
    result,         \* merge: the commands the consumer has received
    stderr,         \* the console.error lines written so far
    file,           \* file stream: the lines of the transcript file
    lineNumber,     \* file stream: lines read so far
    fpc,            \* file stream: "reading", "done", or "idle"
    yielded,        \* file stream: the commands yielded so far
    yieldedFrom,    \* file stream, history: for each yielded command the
                    \*   file, line and tool_use id it was extracted from
    projects,       \* project streams: the project directories read
    ppc,            \* project stream: "start", "yielded", "done", or "idle"
    prest,          \* project stream: the events the generator has yet to produce
    input,          \* normalizeBashCommand: the command text given
    output,         \* normalizeBashCommand: the text returned, once called
    cliArgs,        \* cli: the project argument, its resolution, the options
    cli,            \* cli: where main is, index, commandCount, exit code
    stdout,         \* the lines written to process.stdout
    sigpipeDetected,\* OutputFormatter: the latch set by an EPIPE
    lastWrite,      \* OutputFormatter: what the last write call returned
    sortedBuffer    \* createSortedBuffer: allCommands, i, bufferSize

mergeVars == <<streams, gens, streamBuffers, earliest, mpc, result>>
fileVars == <<file, lineNumber, fpc, yielded, yieldedFrom>>
projectVars == <<projects, ppc, prest>>
stringVars == <<input, output>>
cliVars == <<cliArgs, cli, stdout, sigpipeDetected, lastWrite>>
vars == <<streams, gens, streamBuffers, earliest, mpc, result, stderr,
          file, lineNumber, fpc, yielded, yieldedFrom,
          projects, ppc, prest, input, output,
          cliArgs, cli, stdout, sigpipeDetected, lastWrite, sortedBuffer>>

\* The parts of the state a specification does not use.
MergeIdle ==
    /\ streams = <<>> /\ gens = <<>> /\ streamBuffers = <<>>
    /\ earliest = 0 /\ mpc = "idle" /\ result = <<>>
FileIdle ==
    /\ file = <<>> /\ lineNumber = 0 /\ fpc = "idle"
    /\ yielded = <<>> /\ yieldedFrom = <<>>
ProjectIdle == projects = <<>> /\ ppc = "idle" /\ prest = <<>>
StringIdle == input = <<>> /\ output = <<>>
CliIdle ==
    /\ cliArgs = <<>> /\ cli = [pc |-> "idle"] /\ stdout = <<>>
    /\ sigpipeDetected = FALSE /\ lastWrite = <<>>
SortedIdle == sortedBuffer = <<>>

\* ------------------------------------------------------------------------
\* Helpers
\* ------------------------------------------------------------------------
RECURSIVE SumTo(_, _)
SumTo(f, n) == IF n = 0 THEN 0 ELSE f[n] + SumTo(f, n - 1)

Timestamps == 1..MaxTs

\* One console.error call: its message and, for a line of a file, the line.
Diag(msg, line) == [msg |-> msg, line |-> line]

\* ------------------------------------------------------------------------
\* An input stream: an async generator that yields its items in order and
\* then either returns or throws.
\* ------------------------------------------------------------------------
NewGen == [pos |-> 0, finished |-> FALSE, pulls |-> 0]

\* One call of next(); g.pulls counts the calls made on the generator.
StreamNext(stream, g) ==
    LET called == [g EXCEPT !.pulls = g.pulls + 1]
    IN IF g.finished
       THEN [kind |-> "done", value |-> <<>>, gen |-> called]
       ELSE IF g.pos < Len(stream.items)
       THEN [kind |-> "value", value |-> <<stream.items[g.pos + 1]>>,
             gen |-> [called EXCEPT !.pos = g.pos + 1]]
       ELSE IF stream.throws
       THEN [kind |-> "throw", value |-> <<>>,
             gen |-> [called EXCEPT !.finished = TRUE]]
       ELSE [kind |-> "done", value |-> <<>>,
             gen |-> [called EXCEPT !.finished = TRUE]]

\* ------------------------------------------------------------------------
\* StreamMerger
\* ------------------------------------------------------------------------
\* The state the merge works on: the cursors, the generators behind them and
\* the diagnostics written.
\* initializeBuffers whose catch block logs but leaves the cursor open.
RECURSIVE initializeBuffersFrom_KeepsOpen(_, _, _)
initializeBuffersFrom_KeepsOpen(strs, m, i) ==
    IF i > Len(m.sb) THEN m
    ELSE LET r == StreamNext(strs[i], m.gens[i])
             sb1 == IF r.kind = "value"
                    THEN [m.sb EXCEPT ![i].buffer = r.value]
                    ELSE IF r.kind = "done"
                    THEN [m.sb EXCEPT ![i].exhausted = TRUE]
                    ELSE m.sb
             err1 == IF r.kind = "throw"
                     THEN Append(m.err, Diag("Error initializing stream", 0))
                     ELSE m.err
         IN initializeBuffersFrom_KeepsOpen(strs,
                [sb |-> sb1, gens |-> [m.gens EXCEPT ![i] = r.gen], err |-> err1],
                i + 1)

RECURSIVE initializeBuffersFrom(_, _, _)
initializeBuffersFrom(strs, m, i) ==
    IF i > Len(m.sb) THEN m
    ELSE LET r == StreamNext(strs[i], m.gens[i])
             sb1 == IF r.kind = "value"
                    THEN [m.sb EXCEPT ![i].buffer = r.value]
                    ELSE [m.sb EXCEPT ![i].exhausted = TRUE]
             err1 == IF r.kind = "throw"
                     THEN Append(m.err, Diag("Error initializing stream", 0))
                     ELSE m.err
         IN initializeBuffersFrom(strs,
                [sb |-> sb1, gens |-> [m.gens EXCEPT ![i] = r.gen], err |-> err1],
                i + 1)

initializeBuffers(strs, m) == initializeBuffersFrom(strs, m, 1)

\* findEarliestCommand with the comparison turned round.
RECURSIVE findEarliestFrom_Latest(_, _, _)
findEarliestFrom_Latest(sb, i, earliestIndex) ==
    IF i > Len(sb) THEN earliestIndex
    ELSE LET take == /\ ~sb[i].exhausted
                     /\ sb[i].buffer # <<>>
                     /\ \/ earliestIndex = 0
                        \/ sb[i].buffer[1].timestamp
                             > sb[earliestIndex].buffer[1].timestamp
         IN findEarliestFrom_Latest(sb, i + 1, IF take THEN i ELSE earliestIndex)

\* findEarliestCommand whose scan stops one cursor short.
RECURSIVE findEarliestFrom_StopsShort(_, _, _)
findEarliestFrom_StopsShort(sb, i, earliestIndex) ==
    IF i > Len(sb) - 1 THEN earliestIndex
    ELSE LET take == /\ ~sb[i].exhausted
                     /\ sb[i].buffer # <<>>
                     /\ \/ earliestIndex = 0
                        \/ sb[i].buffer[1].timestamp
                             < sb[earliestIndex].buffer[1].timestamp
         IN findEarliestFrom_StopsShort(sb, i + 1, IF take THEN i ELSE earliestIndex)

\* findEarliestCommand that compares with <=: of equal timestamps the last
\* cursor scanned wins.
RECURSIVE findEarliestFrom_LastOfEqual(_, _, _)
findEarliestFrom_LastOfEqual(sb, i, earliestIndex) ==
    IF i > Len(sb) THEN earliestIndex
    ELSE LET take == /\ ~sb[i].exhausted
                     /\ sb[i].buffer # <<>>
                     /\ \/ earliestIndex = 0
                        \/ sb[i].buffer[1].timestamp
                             <= sb[earliestIndex].buffer[1].timestamp
         IN findEarliestFrom_LastOfEqual(sb, i + 1, IF take THEN i ELSE earliestIndex)

RECURSIVE findEarliestFrom(_, _, _)
findEarliestFrom(sb, i, earliestIndex) ==
    IF i > Len(sb) THEN earliestIndex
    ELSE LET take == /\ ~sb[i].exhausted
                     /\ sb[i].buffer # <<>>
                     /\ \/ earliestIndex = 0
                        \/ sb[i].buffer[1].timestamp
                             < sb[earliestIndex].buffer[1].timestamp
         IN findEarliestFrom(sb, i + 1, IF take THEN i ELSE earliestIndex)

findEarliestCommand(sb) == findEarliestFrom(sb, 1, 0)

\* refillBuffer whose catch block writes no diagnostic.
refillBuffer_Silent(strs, m, i) ==
    LET r == StreamNext(strs[i], m.gens[i])
    IN [sb |-> IF r.kind = "value"
                THEN [m.sb EXCEPT ![i].buffer = r.value]
                ELSE [m.sb EXCEPT ![i] = [buffer |-> <<>>, exhausted |-> TRUE]],
        gens |-> [m.gens EXCEPT ![i] = r.gen],
        err |-> m.err]

\* refillBuffer that marks the cursor exhausted and leaves the command it
\* held in the buffer.
refillBuffer_KeepsStale(strs, m, i) ==
    LET r == StreamNext(strs[i], m.gens[i])
    IN [sb |-> IF r.kind = "value"
                THEN [m.sb EXCEPT ![i].buffer = r.value]
                ELSE [m.sb EXCEPT ![i].exhausted = TRUE],
        gens |-> [m.gens EXCEPT ![i] = r.gen],
        err |-> IF r.kind = "throw"
                THEN Append(m.err, Diag("Error reading from stream", 0))
                ELSE m.err]

\* refillBuffer that reads ahead: it calls next() a second time and keeps the
\* later answer.
refillBuffer_ReadsAhead(strs, m, i) ==
    LET r0 == StreamNext(strs[i], m.gens[i])
        r == IF r0.kind = "value" THEN StreamNext(strs[i], r0.gen) ELSE r0
    IN [sb |-> IF r.kind = "value"
                THEN [m.sb EXCEPT ![i].buffer = r.value]
                ELSE [m.sb EXCEPT ![i] = [buffer |-> <<>>, exhausted |-> TRUE]],
        gens |-> [m.gens EXCEPT ![i] = r.gen],
        err |-> IF r.kind = "throw"
                THEN Append(m.err, Diag("Error reading from stream", 0))
                ELSE m.err]

\* refillBuffer that also calls next() on the generators of the cursors
\* already exhausted.
refillBuffer_PullsExhausted(strs, m, i) ==
    LET r == StreamNext(strs[i], m.gens[i])
    IN [sb |-> IF r.kind = "value"
                THEN [m.sb EXCEPT ![i].buffer = r.value]
                ELSE [m.sb EXCEPT ![i] = [buffer |-> <<>>, exhausted |-> TRUE]],
        gens |-> [k \in 1..Len(m.gens) |->
                    IF k = i THEN r.gen
                    ELSE IF m.sb[k].exhausted
                    THEN StreamNext(strs[k], m.gens[k]).gen
                    ELSE m.gens[k]],
        err |-> IF r.kind = "throw"
                THEN Append(m.err, Diag("Error reading from stream", 0))
                ELSE m.err]

refillBuffer(strs, m, i) ==
    LET r == StreamNext(strs[i], m.gens[i])
    IN [sb |-> IF r.kind = "value"
                THEN [m.sb EXCEPT ![i].buffer = r.value]
                ELSE [m.sb EXCEPT ![i] = [buffer |-> <<>>, exhausted |-> TRUE]],
        gens |-> [m.gens EXCEPT ![i] = r.gen],
        err |-> IF r.kind = "throw"
                THEN Append(m.err, Diag("Error reading from stream", 0))
                ELSE m.err]

\* The command yielded is put in front of what was yielded before.
mergeLoop_Prepends(m) ==
    LET earliestIndex == findEarliestCommand(m.sb)
    IN /\ streamBuffers' = m.sb
       /\ gens' = m.gens
       /\ stderr' = m.err
       /\ IF earliestIndex = 0
          THEN /\ mpc' = "done"
               /\ earliest' = 0
               /\ result' = result
          ELSE /\ mpc' = "yielded"
               /\ earliest' = earliestIndex
               /\ result' = <<m.sb[earliestIndex].buffer[1]>> \o result

\* The loop ends as soon as one cursor is exhausted.
mergeLoop_EndsAtFirstExhausted(m) ==
    LET earliestIndex == IF \E i \in 1..Len(m.sb) : m.sb[i].exhausted
                         THEN 0 ELSE findEarliestCommand(m.sb)
    IN /\ streamBuffers' = m.sb
       /\ gens' = m.gens
       /\ stderr' = m.err
       /\ IF earliestIndex = 0
          THEN /\ mpc' = "done"
               /\ earliest' = 0
               /\ result' = result
          ELSE /\ mpc' = "yielded"
               /\ earliest' = earliestIndex
               /\ result' = Append(result, m.sb[earliestIndex].buffer[1])

\* The loop of mergeStreamsWithBuffering from its head to its next yield (or
\* to its end), on merge state m.
mergeLoop(m) ==
    LET earliestIndex == findEarliestCommand(m.sb)
    IN /\ streamBuffers' = m.sb
       /\ gens' = m.gens
       /\ stderr' = m.err
       /\ IF earliestIndex = 0
          THEN /\ mpc' = "done"
               /\ earliest' = 0
               /\ result' = result
          ELSE /\ mpc' = "yielded"
               /\ earliest' = earliestIndex
               /\ result' = Append(result, m.sb[earliestIndex].buffer[1])

\* chronologicalMerge([]): the consumer's first pull ends the merge.
chronologicalMergeEmpty ==
    /\ mpc = "start"
    /\ Len(streams) = 0
    /\ mpc' = "done"
    /\ UNCHANGED <<streams, gens, streamBuffers, earliest, result, stderr>>
    /\ UNCHANGED <<fileVars, projectVars, stringVars, cliVars, sortedBuffer>>

\* chronologicalMerge([s]): yield* s, one pull of the consumer at a time; what
\* s throws reaches the consumer.
chronologicalMergeSingle ==
    /\ mpc \in {"start", "delegating"}
    /\ Len(streams) = 1
    /\ LET r == StreamNext(streams[1], gens[1])
       IN /\ gens' = [gens EXCEPT ![1] = r.gen]
          /\ mpc' = CASE r.kind = "value" -> "delegating"
                      [] r.kind = "done" -> "done"
                      [] r.kind = "throw" -> "threw"
          /\ result' = IF r.kind = "value" THEN Append(result, r.value[1]) ELSE result
    /\ UNCHANGED <<streams, streamBuffers, earliest, stderr>>
    /\ UNCHANGED <<fileVars, projectVars, stringVars, cliVars, sortedBuffer>>

\* chronologicalMerge(streams), two streams or more, the consumer's first
\* pull: build the cursors, initializeBuffers, then the merge loop up to its
\* first yield.
chronologicalMerge ==
    /\ mpc = "start"
    /\ Len(streams) >= 2
    /\ \E m \in {initializeBuffers(streams,
            [sb |-> [i \in 1..Len(streams) |-> [buffer |-> <<>>, exhausted |-> FALSE]],
             gens |-> gens, err |-> stderr])} :
          mergeLoop(m)
    /\ UNCHANGED streams
    /\ UNCHANGED <<fileVars, projectVars, stringVars, cliVars, sortedBuffer>>

\* mergeStreamsWithBuffering resumed by the consumer's next pull: refill the
\* cursor that was yielded from, then the loop up to the next yield.
mergeStreamsWithBuffering ==
    /\ mpc = "yielded"
    /\ \E m \in {refillBuffer(streams,
            [sb |-> streamBuffers, gens |-> gens, err |-> stderr], earliest)} :
          mergeLoop(m)
    /\ UNCHANGED streams
    /\ UNCHANGED <<fileVars, projectVars, stringVars, cliVars, sortedBuffer>>

\* ------------------------------------------------------------------------
\* The merge of up to MaxStreams mock streams
\* ------------------------------------------------------------------------
\* The k-th command of stream i; its text names it.
createCommand(i, k, ts) ==
    [timestamp |-> ts, command |-> <<i, k>>, source |-> "bash"]

InitMerge ==
    /\ \E n \in 0..MaxStreams :
       \E lens \in {f \in [1..n -> 0..MaxTotal] : SumTo(f, n) <= MaxTotal} :
       \E ts \in [1..SumTo(lens, n) -> Timestamps] :
       \E thr \in [1..n -> BOOLEAN] :
          streams = [i \in 1..n |->
                      [items |-> [k \in 1..lens[i] |->
                                    createCommand(i, k, ts[SumTo(lens, i - 1) + k])],
                       throws |-> thr[i]]]
    /\ gens = [i \in 1..Len(streams) |-> NewGen]
    /\ streamBuffers = <<>>
    /\ earliest = 0
    /\ mpc = "start"
    /\ result = <<>>
    /\ stderr = <<>>
    /\ FileIdle /\ ProjectIdle /\ StringIdle /\ CliIdle /\ SortedIdle

NextMerge ==
    \/ chronologicalMergeEmpty
    \/ chronologicalMergeSingle
    \/ chronologicalMerge
    \/ mergeStreamsWithBuffering

SpecMerge == InitMerge /\ [][NextMerge]_vars

\* The same merge over the smaller family of streams of the sorted buffer,
\* with a consumer that keeps pulling until the merge ends.
InitMergeFair ==
    /\ \E n \in 0..MaxSortedStreams :
       \E lens \in {f \in [1..n -> 0..MaxSortedTotal] :
                          SumTo(f, n) <= MaxSortedTotal} :
       \E ts \in [1..SumTo(lens, n) -> Timestamps] :
       \E thr \in [1..n -> BOOLEAN] :
          streams = [i \in 1..n |->
                      [items |-> [k \in 1..lens[i] |->
                                    createCommand(i, k, ts[SumTo(lens, i - 1) + k])],
                       throws |-> thr[i]]]
    /\ gens = [i \in 1..Len(streams) |-> NewGen]
    /\ streamBuffers = <<>>
    /\ earliest = 0
    /\ mpc = "start"
    /\ result = <<>>
    /\ stderr = <<>>
    /\ FileIdle /\ ProjectIdle /\ StringIdle /\ CliIdle /\ SortedIdle

SpecMergeFair == InitMergeFair /\ [][NextMerge]_vars /\ WF_vars(NextMerge)

\* ------------------------------------------------------------------------
\* Strings
\* ------------------------------------------------------------------------
Whitespace == {" ", "\n", "\t"}

RECURSIVE trimStart(_)
trimStart(s) == IF s # <<>> /\ s[1] \in Whitespace THEN trimStart(Tail(s)) ELSE s

RECURSIVE trimEnd(_)
trimEnd(s) ==
    IF s # <<>> /\ s[Len(s)] \in Whitespace
    THEN trimEnd(SubSeq(s, 1, Len(s) - 1))
    ELSE s

\* String.prototype.trim
trim(s) == trimEnd(trimStart(s))

\* String.prototype.split(sep), sep one character
RECURSIVE split(_, _)
split(s, sep) ==
    IF \A k \in 1..Len(s) : s[k] # sep
    THEN <<s>>
    ELSE LET k == CHOOSE k \in 1..Len(s) :
                     s[k] = sep /\ \A h \in 1..(k - 1) : s[h] # sep
         IN <<SubSeq(s, 1, k - 1)>> \o split(SubSeq(s, k + 1, Len(s)), sep)

\* Array.prototype.join(sep)
RECURSIVE join(_, _)
join(parts, sep) ==
    IF parts = <<>> THEN <<>>
    ELSE IF Len(parts) = 1 THEN parts[1]
    ELSE parts[1] \o sep \o join(Tail(parts), sep)

startsWith(s, prefix) ==
    Len(s) >= Len(prefix) /\ SubSeq(s, 1, Len(prefix)) = prefix

\* ------------------------------------------------------------------------
\* JSONLStreamParser
\* ------------------------------------------------------------------------
\* new Date() for an entry without timestamp: later than every timestamp of
\* the file.
Now == MaxLines + 1

\* normalizeBashCommand without the filter on empty lines.
normalizeBashCommand_KeepsEmpty(command) ==
    LET lines == split(command, "\n")
        trimmed == [k \in 1..Len(lines) |-> trim(lines[k])]
    IN join(trimmed, <<"\\", "n">>)

normalizeBashCommand(command) ==
    LET lines == split(command, "\n")
        trimmed == [k \in 1..Len(lines) |-> trim(lines[k])]
    IN join(SelectSeq(trimmed, LAMBDA line : Len(line) > 0), <<"\\", "n">>)

\* The last block of content that is a tool_use of the Bash tool, if any.
findBashToolBlock_Last(content) ==
    LET hits == SelectSeq(content,
                    LAMBDA block : block.type = "tool_use" /\ block.name = "Bash")
    IN IF hits = <<>> THEN <<>> ELSE <<hits[Len(hits)]>>

\* The first block of content that is a tool_use of the Bash tool, if any.
findBashToolBlock(content) ==
    LET hits == SelectSeq(content,
                    LAMBDA block : block.type = "tool_use" /\ block.name = "Bash")
    IN IF hits = <<>> THEN <<>> ELSE <<hits[1]>>

\* block.command is block.input?.command, absent or a string.  The Command
\* built has no success field.
createClaudeCommand(block, entry, source) ==
    IF block.command = <<>> \/ block.command[1] = <<>>
    THEN <<>>
    ELSE <<[timestamp |-> IF entry.timestamp # 0 THEN entry.timestamp ELSE Now,
            command |-> normalizeBashCommand(block.command[1]),
            source |-> source,
            success |-> <<>>]>>

extractBashCommand(entry) ==
    IF entry.type # "assistant" \/ entry.content.shape = "missing"
    THEN <<>>
    ELSE LET bashBlock == findBashToolBlock(entry.content.blocks)
         IN IF bashBlock = <<>> THEN <<>>
            ELSE createClaudeCommand(bashBlock[1], entry, "bash")

\* The text after "! " of the first text block that starts with it.  Content
\* that is a string is iterated by character, and no character is a block
\* of type text.
findUserCommand(content) ==
    LET blocks == IF content.shape = "blocks" THEN content.blocks ELSE <<>>
        hits == SelectSeq(blocks,
                    LAMBDA block : /\ block.type = "text"
                                   /\ block.text # <<>>
                                   /\ startsWith(trim(block.text), <<"!", " ">>))
    IN IF hits = <<>> THEN <<>>
       ELSE <<trim(SubSeq(trim(hits[1].text), 3, Len(trim(hits[1].text))))>>

extractUserCommand(entry) ==
    IF entry.type # "user" \/ entry.content.shape = "missing"
    THEN <<>>
    ELSE LET command == findUserCommand(entry.content)
         IN IF command = <<>> \/ command[1] = <<>> THEN <<>>
            ELSE createClaudeCommand([command |-> command], entry, "user")

\* What the body of the loop of createFileStream yields for one decoded
\* entry, with the bash command yielded a second time in place of the user
\* command.
yieldsOfEntry_BashTwice(entry) ==
    extractBashCommand(entry) \o extractBashCommand(entry)

\* What the body of the loop of createFileStream yields for one decoded
\* entry that stops after the bash command.
yieldsOfEntry_BashOnly(entry) ==
    extractBashCommand(entry)

\* What the body of the loop of createFileStream yields for one decoded
\* entry: the bash command if there is one, then the user command if there
\* is one.
yieldsOfEntry(entry) ==
    extractBashCommand(entry) \o extractUserCommand(entry)

\* History: the id of the tool_use block a bash command of this entry is
\* extracted from.
idOfEntry(entry) ==
    IF entry.content.shape = "blocks" /\ findBashToolBlock(entry.content.blocks) # <<>>
    THEN findBashToolBlock(entry.content.blocks)[1].id
    ELSE ""

\* The extraction throws a TypeError on a decoded value that is null (null
\* has no type) and on an assistant entry whose content is a string (a
\* string has no find).
entryThrows_OnResult(line) ==
    \/ line.kind = "null"
    \/ /\ line.kind = "entry" /\ line.type = "assistant"
       /\ line.content.shape = "string"
    \/ /\ line.kind = "entry" /\ line.type = "user"
       /\ line.content.shape = "blocks"
       /\ \E k \in 1..Len(line.content.blocks) :
             line.content.blocks[k].type = "tool_result"

entryThrows(line) ==
    \/ line.kind = "null"
    \/ /\ line.kind = "entry" /\ line.type = "assistant"
       /\ line.content.shape = "string"

\* What createFileStream does with line n of a file, as the events a
\* consumer and stderr see, in order: a command yielded (with, as history,
\* the line and the tool_use id it comes from) or a console.error line.
YieldEvent(cmd, n, id) ==
    [kind |-> "yield", cmd |-> <<cmd>>,
     from |-> [file |-> 0, line |-> n, id |-> id], diag |-> <<>>]
DiagEvent(msg, n) ==
    [kind |-> "diag", cmd |-> <<>>,
     from |-> [file |-> 0, line |-> n, id |-> ""], diag |-> <<Diag(msg, n)>>]

\* The commands an entry at line n yields, as events; id is the tool_use id
\* of its bash command.
eventsOfYields(cmds, n, id) ==
    [k \in 1..Len(cmds) |->
        YieldEvent(cmds[k], n, IF cmds[k].source = "bash" THEN id ELSE "")]

\* A line that is blank is skipped, a line that does not parse or whose
\* entry makes the extraction throw is reported, and an entry yields its
\* commands.
eventsOfLine(line, n) ==
    CASE line.kind = "blank" -> <<>>
      [] line.kind = "corrupt" ->
            <<DiagEvent("Error parsing line: JSON syntax error", n)>>
      [] line.kind # "blank" /\ line.kind # "corrupt" /\ entryThrows(line) ->
            <<DiagEvent("Error parsing line: parsing error", n)>>
      [] OTHER -> eventsOfYields(yieldsOfEntry(line), n, idOfEntry(line))

\* the commands, their origins and the diagnostics of a run of events
YieldsIn(events) == SelectSeq(events, LAMBDA e : e.kind = "yield")
CommandsIn(events) == [k \in 1..Len(YieldsIn(events)) |-> YieldsIn(events)[k].cmd[1]]
OriginsIn(events) == [k \in 1..Len(YieldsIn(events)) |-> YieldsIn(events)[k].from]
DiagsIn(events) ==
    LET ds == SelectSeq(events, LAMBDA e : e.kind = "diag")
    IN [k \in 1..Len(ds) |-> ds[k].diag[1]]

\* createFileStream whose try block encloses the loop: the first line that
\* fails ends the stream.
createFileStream_StopsAtError ==
    /\ fpc = "reading"
    /\ lineNumber < Len(file)
    /\ LET n == lineNumber + 1
           events == eventsOfLine(file[n], n)
       IN /\ lineNumber' = IF DiagsIn(events) # <<>> THEN Len(file) ELSE n
          /\ yielded' = yielded \o CommandsIn(events)
          /\ yieldedFrom' = yieldedFrom \o OriginsIn(events)
          /\ stderr' = stderr \o DiagsIn(events)
    /\ UNCHANGED <<file, fpc>>
    /\ UNCHANGED <<mergeVars, projectVars, stringVars, cliVars, sortedBuffer>>

\* createFileStream, one turn of its loop over the lines.
createFileStream ==
    /\ fpc = "reading"
    /\ lineNumber < Len(file)
    /\ LET n == lineNumber + 1
           events == eventsOfLine(file[n], n)
       IN /\ lineNumber' = n
          /\ yielded' = yielded \o CommandsIn(events)
          /\ yieldedFrom' = yieldedFrom \o OriginsIn(events)
          /\ stderr' = stderr \o DiagsIn(events)
    /\ UNCHANGED <<file, fpc>>
    /\ UNCHANGED <<mergeVars, projectVars, stringVars, cliVars, sortedBuffer>>

\* createFileStream at the end of the lines: the loop ends, rl.close().
createFileStreamEnd ==
    /\ fpc = "reading"
    /\ lineNumber = Len(file)
    /\ fpc' = "done"
    /\ UNCHANGED <<file, lineNumber, yielded, yieldedFrom, stderr>>
    /\ UNCHANGED <<mergeVars, projectVars, stringVars, cliVars, sortedBuffer>>

\* ------------------------------------------------------------------------
\* The lines a transcript file is made of
\* ------------------------------------------------------------------------
NoBlock == [type |-> "", name |-> "", id |-> "", command |-> <<>>,
            text |-> <<>>, tool_use_id |-> "", is_error |-> FALSE]
Bash(id, command) ==
    [NoBlock EXCEPT !.type = "tool_use", !.name = "Bash", !.id = id,
                    !.command = command]
Edit(id) == [NoBlock EXCEPT !.type = "tool_use", !.name = "Edit", !.id = id]
Text(text) == [NoBlock EXCEPT !.type = "text", !.text = text]
ToolResult(id, err) ==
    [NoBlock EXCEPT !.type = "tool_result", !.tool_use_id = id, !.is_error = err]

Blocks(bs) == [shape |-> "blocks", blocks |-> bs, text |-> <<>>]
Str(text) == [shape |-> "string", blocks |-> <<>>, text |-> text]
Missing == [shape |-> "missing", blocks |-> <<>>, text |-> <<>>]

Entry(type, content, stamped) ==
    [kind |-> "entry", type |-> type, content |-> content, stamped |-> stamped]
Other(kind) ==
    [kind |-> kind, type |-> "", content |-> Missing, stamped |-> FALSE]

cmdA == << <<"a">> >>                          \* "a"
cmdMulti == << <<"a", "\n", " ", "b", "\n", "\n", "c">> >>   \* "a\n b\n\nc"
cmdBlank == << <<" ">> >>                      \* " "
cmdEmpty == << <<>> >>                         \* ""
bangA == <<"!", " ", "a">>                     \* "! a"

AssistantShapes ==
    { Entry("assistant", Blocks(<<Bash("t1", cmdA)>>), TRUE),
      Entry("assistant", Blocks(<<Bash("t2", cmdA)>>), FALSE),
      Entry("assistant", Blocks(<<Bash("t1", cmdMulti)>>), TRUE),
      Entry("assistant", Blocks(<<Bash("t1", <<>>)>>), TRUE),
      Entry("assistant", Blocks(<<Bash("t1", cmdEmpty)>>), TRUE),
      Entry("assistant", Blocks(<<Bash("t1", cmdBlank)>>), TRUE),
      Entry("assistant", Blocks(<<Edit("t3"), Bash("t2", cmdA)>>), TRUE),
      Entry("assistant", Blocks(<<Bash("t1", cmdA), Bash("t2", cmdMulti)>>), TRUE),
      Entry("assistant", Blocks(<<Bash("t1", <<>>), Bash("t2", cmdA)>>), TRUE),
      Entry("assistant", Blocks(<<Text(bangA)>>), TRUE) }

UserShapes ==
    { Entry("user", Str(bangA), TRUE),
      Entry("user", Blocks(<<Text(bangA)>>), TRUE),
      Entry("user", Blocks(<<Text(<<"a">>)>>), TRUE),
      Entry("user", Blocks(<<ToolResult("t1", FALSE)>>), TRUE),
      Entry("user", Blocks(<<ToolResult("t1", TRUE)>>), TRUE),
      Entry("user", Blocks(<<ToolResult("t2", TRUE)>>), TRUE),
      Entry("user", Blocks(<<ToolResult("t2", TRUE), ToolResult("t1", FALSE)>>), TRUE),
      Entry("user", Blocks(<<ToolResult("t1", TRUE), ToolResult("t1", FALSE)>>), TRUE),
      Entry("user", Blocks(<<ToolResult("t9", TRUE)>>), TRUE),
      Entry("user", Missing, TRUE) }

LineShapes ==
    AssistantShapes \cup UserShapes
        \cup {Other("blank"), Other("corrupt"), Other("null")}

\* The ids of the Bash tool_use blocks of a line.
BashIdsOf(line) ==
    {line.content.blocks[k].id : k \in
        {h \in 1..Len(line.content.blocks) :
            /\ line.content.blocks[h].type = "tool_use"
            /\ line.content.blocks[h].name = "Bash"}}

\* Invocation ids are generated: no two lines of a file share one.
UniqueIds(shapes) ==
    \A a, b \in 1..Len(shapes) :
        a # b => BashIdsOf(shapes[a]) \cap BashIdsOf(shapes[b]) = {}

\* Line i of a file carries timestamp i, or none (0).
InitFile ==
    /\ \E n \in 0..MaxLines :
       \E shapes \in [1..n -> LineShapes] :
          /\ UniqueIds(shapes)
          /\ file = [i \in 1..n |->
                      [kind |-> shapes[i].kind, type |-> shapes[i].type,
                       content |-> shapes[i].content,
                       timestamp |-> IF shapes[i].stamped THEN i ELSE 0]]
    /\ lineNumber = 0
    /\ fpc = "reading"
    /\ yielded = <<>>
    /\ yieldedFrom = <<>>
    /\ stderr = <<>>
    /\ MergeIdle /\ ProjectIdle /\ StringIdle /\ CliIdle /\ SortedIdle

NextFile ==
    \/ createFileStream
    \/ createFileStreamEnd

SpecFile == InitFile /\ [][NextFile]_vars

\* ------------------------------------------------------------------------
\* normalizeBashCommand on command texts of up to MaxChars characters
\* ------------------------------------------------------------------------
Alphabet == {"a", "b", " ", "\n"}

RECURSIVE StringsUpTo(_)
StringsUpTo(n) ==
    IF n = 0 THEN {<<>>}
    ELSE StringsUpTo(n - 1)
            \cup {Append(s, c) : s \in {t \in StringsUpTo(n - 1) : Len(t) = n - 1},
                                 c \in Alphabet}

InitNormalize ==
    /\ input \in StringsUpTo(MaxChars)
    /\ output = <<>>
    /\ projects = <<>> /\ ppc = "idle" /\ prest = <<>>
    /\ stderr = <<>>
    /\ MergeIdle /\ FileIdle /\ CliIdle /\ SortedIdle

\* The call normalizeBashCommand(input).
normalizeBashCommandCall ==
    /\ output = <<>>
    /\ output' = <<normalizeBashCommand(input)>>
    /\ UNCHANGED <<input, stderr, mergeVars, fileVars, projectVars, cliVars,
                   sortedBuffer>>

NextNormalize == normalizeBashCommandCall

SpecNormalize == InitNormalize /\ [][NextNormalize]_vars

\* ------------------------------------------------------------------------
\* createProjectStream
\* ------------------------------------------------------------------------
\* A project directory is [listable, files]: whether readdir succeeds, and
\* its entries that end in .jsonl, in the order readdir lists them.  A file
\* is [mtime, status, lines]; status "nostat" when stat fails on it,
\* "unreadable" when reading it fails, "ok" otherwise.

\* History: events marked as those of the file listed at index f.
inFile(events, f) ==
    [k \in 1..Len(events) |-> [events[k] EXCEPT !.from.file = f]]

\* The events of createFileStream over the lines from n on, for the file
\* listed at index f.
RECURSIVE eventsOfLines(_, _, _)
eventsOfLines(lines, n, f) ==
    IF n > Len(lines) THEN <<>>
    ELSE inFile(eventsOfLine(lines[n], n), f) \o eventsOfLines(lines, n + 1, f)

\* createFileStream(filePath) run to its end, as events.  A read that fails
\* is thrown into the loop over the lines and caught by the outer catch.
eventsOfFile(fileRec, f) ==
    IF fileRec.status = "unreadable"
    THEN <<[DiagEvent("Error reading file", 0) EXCEPT !.from.file = f]>>
    ELSE eventsOfLines(fileRec.lines, 1, f)

\* fileStats.sort by descending mtime.
RECURSIVE sortByMtime_Descending(_, _)
sortByMtime_Descending(files, S) ==
    IF S = {} THEN <<>>
    ELSE LET first == CHOOSE i \in S : \A j \in S :
                         \/ files[i].mtime > files[j].mtime
                         \/ files[i].mtime = files[j].mtime /\ i <= j
         IN <<first>> \o sortByMtime_Descending(files, S \ {first})

\* fileStats.sort((a, b) => a.mtime - b.mtime), a stable sort: the indices
\* S of files by ascending mtime, listing order among equals.
RECURSIVE sortByMtime(_, _)
sortByMtime(files, S) ==
    IF S = {} THEN <<>>
    ELSE LET first == CHOOSE i \in S : \A j \in S :
                         \/ files[i].mtime < files[j].mtime
                         \/ files[i].mtime = files[j].mtime /\ i <= j
         IN <<first>> \o sortByMtime(files, S \ {first})

\* The files of a project share what is pending: the command of an
\* invocation is marked failed when a file read later holds a result block
\* that references its id with the error flag.
RECURSIVE eventsOfFiles_SharedPending(_, _)
eventsOfFiles_SharedPending(files, order) ==
    IF order = <<>> THEN <<>>
    ELSE LET mine == eventsOfFile(files[order[1]], order[1])
             failedLater(id) ==
                 \E g \in 2..Len(order) :
                    \E n \in 1..Len(files[order[g]].lines) :
                       \E b \in 1..Len(files[order[g]].lines[n].content.blocks) :
                          LET block == files[order[g]].lines[n].content.blocks[b]
                          IN /\ block.type = "tool_result"
                             /\ block.tool_use_id = id
                             /\ block.is_error
         IN [k \in 1..Len(mine) |->
                IF mine[k].kind = "yield" /\ failedLater(mine[k].from.id)
                THEN [mine[k] EXCEPT !.cmd[1].success = <<FALSE>>]
                ELSE mine[k]]
            \o eventsOfFiles_SharedPending(files, Tail(order))

\* The files in the order given, one createFileStream after the other.
RECURSIVE eventsOfFiles(_, _)
eventsOfFiles(files, order) ==
    IF order = <<>> THEN <<>>
    ELSE eventsOfFile(files[order[1]], order[1])
         \o eventsOfFiles(files, Tail(order))

\* createProjectStream whose catch block writes nothing.
createProjectStream_Silent(project) ==
    IF \/ ~project.listable
       \/ \E i \in 1..Len(project.files) : project.files[i].status = "nostat"
    THEN <<>>
    ELSE eventsOfFiles(project.files,
                       sortByMtime(project.files, 1..Len(project.files)))

\* createProjectStream(projectPath) run to its end, as events.  readdir that
\* fails, and one stat that fails (Promise.all rejects), throw before the
\* first file is opened and are caught by the catch block.
createProjectStream(project) ==
    IF \/ ~project.listable
       \/ \E i \in 1..Len(project.files) : project.files[i].status = "nostat"
    THEN <<DiagEvent("Error reading project directory", 0)>>
    ELSE eventsOfFiles(project.files,
                       sortByMtime(project.files, 1..Len(project.files)))

\* createResilientCommandStream(projectPath): createProjectStream throws
\* nothing for its catch block to report.
createResilientCommandStreamEvents(project) == createProjectStream(project)

\* The index of the first yield among events, 0 without one.
RECURSIVE firstYield(_, _)
firstYield(events, k) ==
    IF k > Len(events) THEN 0
    ELSE IF events[k].kind = "yield" THEN k
    ELSE firstYield(events, k + 1)

\* A generator with the events rest still to come runs up to its next
\* yield, or to its end.
resume(rest, k) ==
    IF k = 0
    THEN /\ stderr' = stderr \o DiagsIn(rest)
         /\ prest' = <<>>
         /\ ppc' = "done"
         /\ UNCHANGED <<yielded, yieldedFrom>>
    ELSE /\ stderr' = stderr \o DiagsIn(SubSeq(rest, 1, k - 1))
         /\ yielded' = Append(yielded, rest[k].cmd[1])
         /\ yieldedFrom' = Append(yieldedFrom, rest[k].from)
         /\ prest' = SubSeq(rest, k + 1, Len(rest))
         /\ ppc' = "yielded"

\* The consumer's first pull on createResilientCommandStream(projects[1]).
createResilientCommandStream ==
    /\ ppc = "start"
    /\ \E events \in {createResilientCommandStreamEvents(projects[1])} :
          resume(events, firstYield(events, 1))
    /\ UNCHANGED <<projects, file, lineNumber, fpc, mergeVars, stringVars, cliVars, sortedBuffer>>

\* The consumer's later pulls on it.
createResilientCommandStreamResumed ==
    /\ ppc = "yielded"
    /\ resume(prest, firstYield(prest, 1))
    /\ UNCHANGED <<projects, file, lineNumber, fpc, mergeVars, stringVars, cliVars, sortedBuffer>>

\* ------------------------------------------------------------------------
\* The project directories read
\* ------------------------------------------------------------------------
\* A line with a command: an assistant entry with one Bash tool_use block,
\* with timestamp ts, or without timestamp (0).
CommandLine(ts) ==
    [kind |-> "entry", type |-> "assistant",
     content |-> Blocks(<<Bash("t1", cmdA)>>), timestamp |-> ts]

\* A line with a result: a user entry with one tool_result block that
\* references the id of the invocations and carries the error flag.
ResultLine ==
    [kind |-> "entry", type |-> "user",
     content |-> Blocks(<<ToolResult("t1", TRUE)>>), timestamp |-> 0]

\* Line code -1 is a line with a result, a code from 0 on a line with a
\* command.
LineOf(code) == IF code = 0 - 1 THEN ResultLine ELSE CommandLine(code)

\* Line codes ts[1..k], line j in the file of slot where[j]: the lines of
\* the file of slot w, in their order.
LinesAt(where, ts, k, w) ==
    LET mine == SelectSeq([j \in 1..k |-> j], LAMBDA j : where[j] = w)
    IN [h \in 1..Len(mine) |-> LineOf(ts[mine[h]])]

IsSortedSeq(f, k) == \A a, b \in 1..k : a < b => f[a] <= f[b]

\* The files of a project from its slots 1..MaxFiles: slot m, when used,
\* is a file of mtime m; the listing is in ascending or descending mtime.
FilesOf(used, statusOf, linesOf, reversed) ==
    LET slots == SelectSeq([m \in 1..MaxFiles |->
                              IF reversed THEN MaxFiles + 1 - m ELSE m],
                           LAMBDA m : m \in used)
    IN [h \in 1..Len(slots) |->
          [mtime |-> slots[h], status |-> statusOf[slots[h]],
           lines |-> linesOf[slots[h]]]]

\* One project; fault 0 is none, fault m in 1..MaxFiles a file of mtime m
\* whose stat fails, fault -m one whose read fails, fault MaxFiles + 1 a
\* directory that cannot be listed.
InitProject ==
    /\ \E k \in 0..MaxProjLines :
       \E where \in {f \in [1..k -> 1..MaxFiles] : IsSortedSeq(f, k)} :
       \E ts \in [1..k -> (0 - 1)..MaxTs] :
       \E reversed \in BOOLEAN :
       \E fault \in (0 - MaxFiles)..(MaxFiles + 1) :
          projects = <<[listable |-> fault # MaxFiles + 1,
                        files |-> FilesOf(
                            {where[j] : j \in 1..k} \cup {fault, 0 - fault},
                            [m \in 1..MaxFiles |->
                                IF fault = m THEN "nostat"
                                ELSE IF fault = 0 - m THEN "unreadable"
                                ELSE "ok"],
                            [m \in 1..MaxFiles |-> LinesAt(where, ts, k, m)],
                            reversed)]>>
    /\ ppc = "start"
    /\ prest = <<>>
    /\ file = <<>> /\ lineNumber = 0 /\ fpc = "idle"
    /\ yielded = <<>> /\ yieldedFrom = <<>>
    /\ stderr = <<>>
    /\ MergeIdle /\ StringIdle /\ CliIdle /\ SortedIdle

NextProject ==
    \/ createResilientCommandStream
    \/ createResilientCommandStreamResumed

SpecProject == InitProject /\ [][NextProject]_vars

\* ------------------------------------------------------------------------
\* mergeProjectStreams
\* ------------------------------------------------------------------------
\* The generator createResilientCommandStream(project.claudePath), as the
\* stream of the commands it yields; it does not throw.
projectStream(project) ==
    [items |-> CommandsIn(createResilientCommandStreamEvents(project)),
     throws |-> FALSE]

\* mergeProjectStreams([]): the consumer's first pull ends the merge.
mergeProjectStreamsEmpty ==
    /\ mpc = "startProjects"
    /\ Len(projects) = 0
    /\ mpc' = "done"
    /\ UNCHANGED <<streams, gens, streamBuffers, earliest, result, stderr>>
    /\ UNCHANGED <<fileVars, projectVars, stringVars, cliVars, sortedBuffer>>

\* mergeProjectStreams([p]) that hands over the first command of the
\* project and returns.
mergeProjectStreamsSingle_FirstOnly ==
    /\ mpc \in {"startProjects", "delegatingProject"}
    /\ Len(projects) = 1
    /\ LET r == StreamNext(streams[1], gens[1])
       IN /\ gens' = [gens EXCEPT ![1] = r.gen]
          /\ mpc' = IF r.kind = "value" /\ mpc = "startProjects"
                    THEN "delegatingProject" ELSE "done"
          /\ result' = IF r.kind = "value" /\ mpc = "startProjects"
                       THEN Append(result, r.value[1]) ELSE result
    /\ UNCHANGED <<streams, streamBuffers, earliest, stderr>>
    /\ UNCHANGED <<fileVars, projectVars, stringVars, cliVars, sortedBuffer>>

\* mergeProjectStreams([p]): yield* createResilientCommandStream(p), one
\* pull of the consumer at a time.
mergeProjectStreamsSingle ==
    /\ mpc \in {"startProjects", "delegatingProject"}
    /\ Len(projects) = 1
    /\ LET r == StreamNext(streams[1], gens[1])
       IN /\ gens' = [gens EXCEPT ![1] = r.gen]
          /\ mpc' = IF r.kind = "value" THEN "delegatingProject" ELSE "done"
          /\ result' = IF r.kind = "value" THEN Append(result, r.value[1]) ELSE result
    /\ UNCHANGED <<streams, streamBuffers, earliest, stderr>>
    /\ UNCHANGED <<fileVars, projectVars, stringVars, cliVars, sortedBuffer>>

\* mergeProjectStreams(projects), two projects or more, the consumer's first
\* pull: build the cursors, initializeBuffers, then the merge loop up to its
\* first yield.
mergeProjectStreams ==
    /\ mpc = "startProjects"
    /\ Len(projects) >= 2
    /\ \E m \in {initializeBuffers(streams,
            [sb |-> [i \in 1..Len(streams) |-> [buffer |-> <<>>, exhausted |-> FALSE]],
             gens |-> gens, err |-> stderr])} :
          mergeLoop(m)
    /\ UNCHANGED streams
    /\ UNCHANGED <<fileVars, projectVars, stringVars, cliVars, sortedBuffer>>

\* Up to MaxProjects projects of files that can all be read, each listed
\* latest file first, every entry with a timestamp; line j of the
\* MaxProjLines lines is in the file of mtime where[j][2] of project
\* where[j][1].
SlotLeq(a, b) == a[1] < b[1] \/ (a[1] = b[1] /\ a[2] <= b[2])

InitProjects ==
    /\ \E n \in 0..MaxProjects :
       \E k \in 0..MaxProjLines :
       \E where \in {f \in [1..k -> (1..n) \X (1..MaxFiles)] :
                        \A a, b \in 1..k : a < b => SlotLeq(f[a], f[b])} :
       \E ts \in [1..k -> Timestamps] :
          projects = [p \in 1..n |->
                        [listable |-> TRUE,
                         files |-> FilesOf(
                            {where[j][2] : j \in {h \in 1..k : where[h][1] = p}},
                            [m \in 1..MaxFiles |-> "ok"],
                            [m \in 1..MaxFiles |-> LinesAt(where, ts, k, <<p, m>>)],
                            TRUE)]]
    /\ streams = [p \in 1..Len(projects) |-> projectStream(projects[p])]
    /\ gens = [p \in 1..Len(projects) |-> NewGen]
    /\ streamBuffers = <<>>
    /\ earliest = 0
    /\ mpc = "startProjects"
    /\ result = <<>>
    /\ stderr = <<>>
    /\ ppc = "idle" /\ prest = <<>>
    /\ FileIdle /\ StringIdle /\ CliIdle /\ SortedIdle

NextProjects ==
    \/ mergeProjectStreamsEmpty
    \/ mergeProjectStreamsSingle
    \/ mergeProjectStreams
    \/ mergeStreamsWithBuffering

SpecProjects == InitProjects /\ [][NextProjects]_vars

\* chronologicalMerge over mock streams, or mergeProjectStreams over
\* projects.
InitMergers == InitMerge \/ InitProjects
NextMergers ==
    \/ chronologicalMergeEmpty
    \/ chronologicalMergeSingle
    \/ chronologicalMerge
    \/ mergeProjectStreamsEmpty
    \/ mergeProjectStreamsSingle
    \/ mergeProjectStreams
    \/ mergeStreamsWithBuffering
SpecMergers == InitMergers /\ [][NextMergers]_vars

\* ------------------------------------------------------------------------
\* OutputFormatter
\* ------------------------------------------------------------------------
\* String.prototype.padStart(n) and padEnd(n), with the default pad " "
padStart(s, n) == [k \in 1..(n - Len(s)) |-> " "] \o s
padEnd(s, n) == s \o [k \in 1..(n - Len(s)) |-> " "]

\* Array.prototype.pop() of a non-empty array: its last element
pop(parts) == parts[Len(parts)]

\* Number.prototype.toString() of an index of one digit
toString(index) == <<index>>

extractProjectName(projectPath) ==
    LET last == pop(split(projectPath, "/"))
    IN IF last # <<>> THEN last ELSE projectPath

formatCommandLine(command, index, isGlobal) ==
    LET indexStr == padStart(toString(index), 4)
    IN IF isGlobal /\ command.projectPath # <<>> /\ command.projectPath # <<<<>>>>
       THEN LET projectName == extractProjectName(command.projectPath[1])
                projectPrefix == <<"[">> \o padEnd(projectName, 15) \o <<"]", " ">>
            IN indexStr \o <<" ", " ">> \o projectPrefix \o command.command
       ELSE indexStr \o <<" ", " ">> \o command.command

\* What process.stdout.write does with a line: it succeeds, throws an
\* error whose code is EPIPE, or throws another error.
WriteOutcomes == {"ok", "EPIPE", "EIO"}

\* The formatter and the two output channels, as one value
Writer == [stdout |-> stdout, stderr |-> stderr,
           sigpipeDetected |-> sigpipeDetected]

\* The latch is set by every write error
writeLineWithSigpipeCheck_LatchesAnyError(line, outcome, w) ==
    IF w.sigpipeDetected
    THEN [ret |-> FALSE, w |-> w]
    ELSE IF outcome = "ok"
    THEN [ret |-> TRUE, w |-> [w EXCEPT !.stdout = Append(@, line)]]
    ELSE [ret |-> FALSE, w |-> [w EXCEPT !.sigpipeDetected = TRUE]]

writeLineWithSigpipeCheck(line, outcome, w) ==
    IF w.sigpipeDetected
    THEN [ret |-> FALSE, w |-> w]
    ELSE IF outcome = "ok"
    THEN [ret |-> TRUE, w |-> [w EXCEPT !.stdout = Append(@, line)]]
    ELSE IF outcome = "EPIPE"
    THEN [ret |-> FALSE, w |-> [w EXCEPT !.sigpipeDetected = TRUE]]
    ELSE [ret |-> FALSE,
          w |-> [w EXCEPT !.stderr =
                    Append(@, Diag("Error writing to stdout", 0))]]

isSigpipeDetected == sigpipeDetected

\* A caller that holds a formatter and calls it in any order
writeLineWithSigpipeCheckCall ==
    /\ cli.pc = "formatter"
    /\ cli.calls < MaxTotal
    /\ \E k \in 1..2, outcome \in WriteOutcomes :
       \E r \in {writeLineWithSigpipeCheck(
                    formatCommandLine([command |-> <<k>>, projectPath |-> <<>>],
                                      cli.calls + 1, FALSE),
                    outcome, Writer)} :
          /\ stdout' = r.w.stdout
          /\ stderr' = r.w.stderr
          /\ sigpipeDetected' = r.w.sigpipeDetected
          /\ lastWrite' = <<r.ret>>
          /\ cli' = [cli EXCEPT !.calls = @ + 1, !.outcome = outcome]
    /\ UNCHANGED <<cliArgs, sortedBuffer, mergeVars, fileVars, projectVars,
                   stringVars>>

resetSigpipeState ==
    /\ cli.pc = "formatter"
    /\ sigpipeDetected' = FALSE
    /\ cli' = [cli EXCEPT !.outcome = "reset"]
    /\ UNCHANGED <<cliArgs, stdout, stderr, lastWrite, sortedBuffer, mergeVars,
                   fileVars, projectVars, stringVars>>

InitFormatter ==
    /\ cli = [pc |-> "formatter", calls |-> 0, outcome |-> "none"]
    /\ cliArgs = <<>>
    /\ stdout = <<>>
    /\ stderr = <<>>
    /\ sigpipeDetected = FALSE
    /\ lastWrite = <<>>
    /\ MergeIdle /\ FileIdle /\ ProjectIdle /\ StringIdle /\ SortedIdle

NextFormatter ==
    \/ writeLineWithSigpipeCheckCall
    \/ resetSigpipeState

SpecFormatter == InitFormatter /\ [][NextFormatter]_vars

\* ------------------------------------------------------------------------
\* cli: createCommandStream, processCommandStream, main
\* ------------------------------------------------------------------------
\* The project a run resolves to: getProject(projectName) when a name is
\* given, getCurrentProject() otherwise; found says whether it is one.
resolvedProject(args) == IF args.found THEN <<"project">> ELSE <<>>

\* A name that resolves to nothing falls back to the global history too
createCommandStreamResult_AlwaysFallsBack(args) ==
    IF args.global
    THEN [kind |-> "global", isGlobal |-> TRUE, error |-> <<>>, diag |-> <<>>]
    ELSE IF resolvedProject(args) = <<>>
    THEN [kind |-> "global", isGlobal |-> TRUE, error |-> <<>>,
          diag |-> <<Diag("No project found. Showing global history from all projects.", 0)>>]
    ELSE [kind |-> "project", isGlobal |-> FALSE, error |-> <<>>, diag |-> <<>>]

createCommandStreamResult(args) ==
    IF args.global
    THEN [kind |-> "global", isGlobal |-> TRUE, error |-> <<>>, diag |-> <<>>]
    ELSE IF resolvedProject(args) = <<>>
    THEN IF args.named
         THEN [kind |-> "none", isGlobal |-> FALSE,
               error |-> <<"Project '<name>' not found">>, diag |-> <<>>]
         ELSE [kind |-> "global", isGlobal |-> TRUE, error |-> <<>>,
               diag |-> <<Diag("No project found. Showing global history from all projects.", 0)>>]
    ELSE [kind |-> "project", isGlobal |-> FALSE, error |-> <<>>, diag |-> <<>>]

\* main, up to the stream: const { stream, isGlobal } = await createCommandStream
createCommandStream ==
    /\ cli.pc = "start"
    /\ \E r \in {createCommandStreamResult(cliArgs)} :
          /\ cli' = [cli EXCEPT !.pc = IF r.error # <<>> THEN "thrown"
                                       ELSE "processing",
                                !.kind = r.kind,
                                !.isGlobal = r.isGlobal,
                                !.error = r.error]
          /\ stderr' = stderr \o r.diag
    /\ UNCHANGED <<cliArgs, stdout, sigpipeDetected, lastWrite, streams, gens,
                   streamBuffers, earliest, mpc, result, sortedBuffer,
                   fileVars, projectVars, stringVars>>

\* main: catch (error) { console.error(...); process.exit(1) }
mainCatch ==
    /\ cli.pc = "thrown"
    /\ stderr' = Append(stderr, Diag("Error: " \o cli.error[1], 0))
    /\ cli' = [cli EXCEPT !.pc = "exited", !.exit = <<1>>]
    /\ UNCHANGED <<cliArgs, stdout, sigpipeDetected, lastWrite, streams, gens,
                   streamBuffers, earliest, mpc, result, sortedBuffer,
                   fileVars, projectVars, stringVars>>

\* if (!options.includeFailed && command.success === false) continue
\* Only a command known to have succeeded passes
passesFilter_SuccessOnly(command, options) ==
    ~(~options.includeFailed /\ command.success # <<TRUE>>)

passesFilter(command, options) ==
    ~(~options.includeFailed /\ command.success = <<FALSE>>)

\* A command that is skipped takes an index all the same
afterSkip_TakesIndex(c) == [c EXCEPT !.index = @ + 1]

\* continue: the turn ends with index and commandCount as they were
afterSkip(c) == c

\* The loop is left without the exit code
endOfLoop_AlwaysReturns(c) ==
    [c EXCEPT !.pc = "returned"]

\* After the loop: if (commandCount === 0) process.exit(2)
endOfLoop(c) ==
    IF c.commandCount = 0
    THEN [c EXCEPT !.pc = "exited", !.exit = <<2>>]
    ELSE [c EXCEPT !.pc = "returned"]

\* A failed write is skipped and the loop goes on
afterWrite_KeepsGoing(c, shouldContinue) ==
    IF ~shouldContinue
    THEN c
    ELSE [c EXCEPT !.index = @ + 1, !.commandCount = @ + 1]

\* if (!shouldContinue) break; index++; commandCount++
afterWrite(c, shouldContinue) ==
    IF ~shouldContinue
    THEN endOfLoop(c)
    ELSE [c EXCEPT !.index = @ + 1, !.commandCount = @ + 1]

\* One turn of  for await (const command of stream)  and, when the loop
\* ends in this turn, the code after it.
processCommandStream ==
    /\ cli.pc = "processing"
    /\ \E n \in {StreamNext(streams[1], gens[1])} :
          /\ gens' = [gens EXCEPT ![1] = n.gen]
          /\ IF n.kind # "value"
             THEN /\ cli' = endOfLoop(cli)
                  /\ UNCHANGED <<stdout, stderr, sigpipeDetected, lastWrite>>
             ELSE IF ~passesFilter(n.value[1], cliArgs)
             THEN /\ cli' = afterSkip(cli)
                  /\ UNCHANGED <<stdout, stderr, sigpipeDetected, lastWrite>>
             ELSE \E outcome \in WriteOutcomes :
                  \E r \in {writeLineWithSigpipeCheck(
                               formatCommandLine(n.value[1], cli.index,
                                                 cli.isGlobal),
                               outcome, Writer)} :
                     /\ stdout' = r.w.stdout
                     /\ stderr' = r.w.stderr
                     /\ sigpipeDetected' = r.w.sigpipeDetected
                     /\ lastWrite' = <<r.ret>>
                     /\ cli' = afterWrite([cli EXCEPT !.formats = @ + 1], r.ret)
    /\ UNCHANGED <<cliArgs, streams, streamBuffers, earliest, mpc, result,
                   sortedBuffer, fileVars, projectVars, stringVars>>

\* The k-th command a run's stream yields.  Every second one carries the
\* path of its project.
SuccessFlags == {<<>>, <<TRUE>>, <<FALSE>>}
cliCommand(k, success) ==
    [timestamp |-> k, command |-> <<k>>, source |-> "bash",
     success |-> success,
     projectPath |-> IF k % 2 = 1 THEN <<<<"/", "d", "/", "p">>>> ELSE <<>>]

InitCli ==
    /\ cliArgs \in [global : BOOLEAN, includeFailed : BOOLEAN,
                    count : 0..MaxTotal, named : BOOLEAN, found : BOOLEAN]
    /\ \E n \in 0..MaxTotal : \E flags \in [1..n -> SuccessFlags] :
          streams = <<[items |-> [k \in 1..n |-> cliCommand(k, flags[k])],
                       throws |-> FALSE]>>
    /\ gens = <<NewGen>>
    /\ streamBuffers = <<>> /\ earliest = 0 /\ mpc = "idle" /\ result = <<>>
    /\ stderr = <<>>
    /\ cli = [pc |-> "start", kind |-> "none", isGlobal |-> FALSE,
              error |-> <<>>, index |-> 1, commandCount |-> 0, formats |-> 0,
              exit |-> <<>>]
    /\ stdout = <<>>
    /\ sigpipeDetected = FALSE
    /\ lastWrite = <<>>
    /\ FileIdle /\ ProjectIdle /\ StringIdle /\ SortedIdle

NextCli ==
    \/ createCommandStream
    \/ mainCatch
    \/ processCommandStream

SpecCli == InitCli /\ [][NextCli]_vars

\* ------------------------------------------------------------------------
\* StreamMerger.createSortedBuffer
\* ------------------------------------------------------------------------
MaxBatch == 2

\* streamToArray: the commands a stream yields from its cursor on, until
\* it is done or throws; a throw is logged and the commands collected so
\* far are returned.
streamToArray(stream, g) ==
    [commands |-> SubSeq(stream.items, g.pos + 1, Len(stream.items)),
     gen |-> [pos |-> Len(stream.items), finished |-> TRUE,
              pulls |-> g.pulls + (Len(stream.items) - g.pos) + 1],
     err |-> IF stream.throws /\ ~g.finished
             THEN <<Diag("Error reading stream", 0)>> ELSE <<>>]

\* Array.prototype.flat() of an array of arrays
RECURSIVE flat(_)
flat(arrays) ==
    IF arrays = <<>> THEN <<>> ELSE Head(arrays) \o flat(Tail(arrays))

\* Array.prototype.sort with the comparator a.timestamp - b.timestamp:
\* the sort is stable, commands of equal timestamp keep their order.
\* before(cmds, a) are the places whose commands come out ahead of the
\* command at place a.
before(cmds, a) ==
    {b \in 1..Len(cmds) :
        \/ cmds[b].timestamp < cmds[a].timestamp
        \/ cmds[b].timestamp = cmds[a].timestamp /\ b < a}

\* The commands are left in the order of the streams
sortByTimestamp_KeepsOrder(cmds) == cmds

\* Of commands with equal timestamps the later one comes out first
sortByTimestamp_LaterFirst(cmds) ==
    [p \in 1..Len(cmds) |->
        cmds[CHOOSE a \in 1..Len(cmds) :
                Cardinality({b \in 1..Len(cmds) :
                    \/ cmds[b].timestamp < cmds[a].timestamp
                    \/ cmds[b].timestamp = cmds[a].timestamp /\ b > a})
                  = p - 1]]

sortByTimestamp(cmds) ==
    [p \in 1..Len(cmds) |->
        cmds[CHOOSE a \in 1..Len(cmds) : Cardinality(before(cmds, a)) = p - 1]]

\* Array.prototype.slice(from, to) for 0 <= from <= to
slice(a, from, to) ==
    SubSeq(a, from + 1, IF to < Len(a) THEN to ELSE Len(a))

\* The two nested loops, run from where the generator is suspended to its
\* next yield or its end.  batch is <<>> before the first turn of the
\* outer loop and <<the batch>> from then on; j counts the commands of the
\* batch already yielded.  A turn that takes an empty batch leaves i where
\* it was: the outer loop turns again on the same values.
batchLoop(b) ==
    IF b.batch # <<>> /\ b.j < Len(b.batch[1])
    THEN [kind |-> "yield", value |-> <<b.batch[1][b.j + 1]>>,
          b |-> [b EXCEPT !.j = b.j + 1]]
    ELSE LET i == IF b.batch = <<>> THEN b.i ELSE b.i + b.bufferSize
         IN IF ~(i < Len(b.allCommands))
            THEN [kind |-> "done", value |-> <<>>, b |-> [b EXCEPT !.i = i]]
            ELSE LET batch == slice(b.allCommands, i, i + b.bufferSize)
                 IN IF batch = <<>>
                    THEN [kind |-> "turning", value |-> <<>>,
                          b |-> [b EXCEPT !.i = i, !.batch = <<batch>>,
                                          !.j = 0]]
                    ELSE [kind |-> "yield", value |-> <<batch[1]>>,
                          b |-> [b EXCEPT !.i = i, !.batch = <<batch>>,
                                          !.j = 1]]

batchStep(b) ==
    \E r \in {batchLoop(b)} :
       /\ sortedBuffer' = r.b
       /\ result' = result \o r.value
       /\ mpc' = CASE r.kind = "yield" -> "batchYielded"
                   [] r.kind = "done" -> "done"
                   [] OTHER -> "batching"

\* The first pull: every stream is read to its end, the commands are put
\* together and sorted, and the loops start.
createSortedBuffer ==
    /\ mpc = "startSorted"
    /\ \E arrays \in {[i \in 1..Len(streams) |->
                          streamToArray(streams[i], gens[i])]} :
          /\ gens' = [i \in 1..Len(streams) |-> arrays[i].gen]
          /\ stderr' = stderr \o flat([i \in 1..Len(streams) |-> arrays[i].err])
          /\ \E allCommands \in {flat([i \in 1..Len(streams) |->
                                          arrays[i].commands])} :
             \E sorted \in {sortByTimestamp(allCommands)} :
                batchStep([sortedBuffer EXCEPT !.allCommands = sorted])
    /\ UNCHANGED <<streams, streamBuffers, earliest>>
    /\ UNCHANGED <<fileVars, projectVars, stringVars, cliVars>>

\* A later pull, and a further turn of the loops while no command has
\* come out of them.
createSortedBufferResumed ==
    /\ mpc \in {"batchYielded", "batching"}
    /\ batchStep(sortedBuffer)
    /\ UNCHANGED <<streams, gens, streamBuffers, earliest, stderr>>
    /\ UNCHANGED <<fileVars, projectVars, stringVars, cliVars>>

InitSorted ==
    /\ \E n \in 0..MaxSortedStreams :
       \E lens \in {f \in [1..n -> 0..MaxSortedTotal] :
                          SumTo(f, n) <= MaxSortedTotal} :
       \E ts \in [1..SumTo(lens, n) -> Timestamps] :
       \E thr \in [1..n -> BOOLEAN] :
          streams = [i \in 1..n |->
                      [items |-> [k \in 1..lens[i] |->
                                    createCommand(i, k, ts[SumTo(lens, i - 1) + k])],
                       throws |-> thr[i]]]
    /\ gens = [i \in 1..Len(streams) |-> NewGen]
    /\ streamBuffers = <<>>
    /\ earliest = 0
    /\ mpc = "startSorted"
    /\ result = <<>>
    /\ stderr = <<>>
    /\ \E size \in 0..MaxBatch :
          sortedBuffer = [allCommands |-> <<>>, i |-> 0, batch |-> <<>>,
                          j |-> 0, bufferSize |-> size]
    /\ FileIdle /\ ProjectIdle /\ StringIdle /\ CliIdle

NextSorted ==
    \/ createSortedBuffer
    \/ createSortedBufferResumed

SpecSorted == InitSorted /\ [][NextSorted]_vars

\* The consumer keeps pulling and a running loop keeps turning.
SpecSortedFair == SpecSorted /\ WF_vars(NextSorted)

\* ------------------------------------------------------------------------
\* The two modes of the merger on the same streams
\* ------------------------------------------------------------------------
\* What createSortedBuffer emitted is put aside and the same streams,
\* created anew from their commands, are handed to chronologicalMerge.
createMockStreams ==
    /\ mpc = "done"
    /\ "bufferSize" \in DOMAIN sortedBuffer
    /\ sortedBuffer' = [emitted |-> result]
    /\ gens' = [i \in 1..Len(streams) |-> NewGen]
    /\ result' = <<>>
    /\ mpc' = "start"
    /\ UNCHANGED <<streams, streamBuffers, earliest, stderr>>
    /\ UNCHANGED <<fileVars, projectVars, stringVars, cliVars>>

InitModes ==
    /\ \E n \in 0..MaxSortedStreams :
       \E lens \in {f \in [1..n -> 0..MaxSortedTotal] :
                          SumTo(f, n) <= MaxSortedTotal} :
       \E ts \in [1..SumTo(lens, n) -> Timestamps] :
       \E thr \in [1..n -> BOOLEAN] :
          streams = [i \in 1..n |->
                      [items |-> [k \in 1..lens[i] |->
                                    createCommand(i, k, ts[SumTo(lens, i - 1) + k])],
                       throws |-> thr[i]]]
    /\ gens = [i \in 1..Len(streams) |-> NewGen]
    /\ streamBuffers = <<>>
    /\ earliest = 0
    /\ mpc = "startSorted"
    /\ result = <<>>
    /\ stderr = <<>>
    /\ \E size \in 1..MaxBatch :
          sortedBuffer = [allCommands |-> <<>>, i |-> 0, batch |-> <<>>,
                          j |-> 0, bufferSize |-> size]
    /\ FileIdle /\ ProjectIdle /\ StringIdle /\ CliIdle

NextModes ==
    \/ createSortedBuffer
    \/ createSortedBufferResumed
    \/ createMockStreams
    \/ chronologicalMergeEmpty
    \/ chronologicalMergeSingle
    \/ chronologicalMerge
    \/ mergeStreamsWithBuffering

SpecModes == InitModes /\ [][NextModes]_vars

\* ------------------------------------------------------------------------
\* Properties of the merge
\* ------------------------------------------------------------------------
NumStreams == Len(streams)

IsNonDecreasing(cmds) ==
    \A a, b \in 1..Len(cmds) : a < b => cmds[a].timestamp <= cmds[b].timestamp

ItemsOf(i) == {streams[i].items[k] : k \in 1..Len(streams[i].items)}
AllItems == UNION {ItemsOf(i) : i \in 1..NumStreams}
ResultSet == {result[j] : j \in 1..Len(result)}
NoDuplicates(cmds) == \A a, b \in 1..Len(cmds) : a # b => cmds[a] # cmds[b]

NoneFails == \A i \in 1..NumStreams : ~streams[i].throws
EachSorted == \A i \in 1..NumStreams : IsNonDecreasing(streams[i].items)
\* the streams that throw on their first pull, and those that throw later
FailAtFirstPull == {i \in 1..NumStreams : streams[i].throws /\ Len(streams[i].items) = 0}
FailLater == {i \in 1..NumStreams : streams[i].throws /\ Len(streams[i].items) > 0}
CountOf(log, msg) == Cardinality({j \in 1..Len(log) : log[j].msg = msg})

\* C1: a merge of two or more streams, each in non-decreasing timestamp
\* order and none failing, has emitted its commands in non-decreasing
\* timestamp order, at every point of the merge.
C1_MergeOrder ==
    (NumStreams >= 2 /\ EachSorted /\ NoneFails) => IsNonDecreasing(result)

\* C1 witness: a finished merge of sorted, failure-free streams that took
\* commands of different timestamps from different streams, the later
\* stream's command first.
C1_Witness ==
    /\ mpc = "done" /\ NumStreams >= 2 /\ EachSorted /\ NoneFails
    /\ Len(result) >= 3
    /\ \E a \in 1..(Len(result) - 1) :
          /\ result[a].command[1] > result[a + 1].command[1]
          /\ result[a].timestamp < result[a + 1].timestamp

\* C2: a merge of failure-free streams never emits a command twice nor a
\* command no stream holds, and when it ends it has emitted every command of
\* every stream: the output is a permutation of the inputs.
C2_Permutation ==
    NoneFails =>
        /\ NoDuplicates(result)
        /\ ResultSet \subseteq AllItems
        /\ mpc = "done" => ResultSet = AllItems

\* C2 witness: a finished failure-free merge over an empty stream and two
\* streams of different lengths that share a timestamp.
C2_Witness ==
    /\ mpc = "done" /\ NoneFails /\ NumStreams = 3
    /\ \E i, j, e \in 1..3 :
          /\ Len(streams[e].items) = 0
          /\ Len(streams[i].items) > Len(streams[j].items)
          /\ Len(streams[j].items) > 0
          /\ streams[i].items[1].timestamp = streams[j].items[1].timestamp
    /\ Len(result) = Cardinality(AllItems)

\* C8: in a merge of two or more streams where the streams that throw do so
\* after having yielded a command, the finished merge has emitted every
\* command of every stream, those of the failing streams included, and has
\* written one "Error reading from stream" diagnostic per failing stream and
\* no other.
C8_Resilience ==
    (NumStreams >= 2 /\ FailAtFirstPull = {} /\ mpc = "done") =>
        /\ ResultSet = AllItems
        /\ NoDuplicates(result)
        /\ Len(stderr) = Cardinality(FailLater)
        /\ CountOf(stderr, "Error reading from stream") = Cardinality(FailLater)

\* C8 witness: a finished merge of two streams or more, exactly one of which
\* threw after yielding a command, with that command and another stream's
\* emitted and one diagnostic written.
C8_Witness ==
    /\ mpc = "done" /\ NumStreams >= 2
    /\ FailAtFirstPull = {} /\ Cardinality(FailLater) = 1
    /\ \E i \in FailLater : \E j \in 1..NumStreams :
          /\ ~streams[j].throws /\ Len(streams[j].items) > 0
          /\ ItemsOf(i) \cup ItemsOf(j) \subseteq ResultSet
    /\ Len(stderr) = 1

\* C9: in a merge of two or more streams, once the merge has started every
\* stream whose first pull throws is marked exhausted with nothing buffered
\* and has one "Error initializing stream" diagnostic; the merge never
\* throws, and when it ends it has emitted every command of the other
\* streams, in timestamp order when those streams are ordered.
C9_InitFailure ==
    NumStreams >= 2 =>
        /\ mpc # "threw"
        /\ mpc # "start" =>
              /\ \A i \in FailAtFirstPull :
                    streamBuffers[i].exhausted /\ streamBuffers[i].buffer = <<>>
              /\ CountOf(stderr, "Error initializing stream")
                    = Cardinality(FailAtFirstPull)
        /\ mpc = "done" =>
              /\ ResultSet = AllItems
              /\ (EachSorted /\ FailLater = {}) => IsNonDecreasing(result)

\* C9 witness: a finished merge in which the first stream threw on its first
\* pull and a later stream's two commands were emitted.
C9_Witness ==
    /\ mpc = "done" /\ NumStreams >= 2
    /\ 1 \in FailAtFirstPull
    /\ streamBuffers[1].exhausted
    /\ Len(result) >= 2
    /\ Len(stderr) >= 1 /\ stderr[1].msg = "Error initializing stream"

\* C10: for any number of streams, one stream included, a stream that throws
\* during a pull never makes the merge throw to its consumer.
C10_NeverThrows ==
    NumStreams >= 1 => mpc # "threw"

\* The consumer holds Len(result) commands and the merge waits for its next
\* pull (or has not been pulled yet): the states a consumer can stop in.
Suspended == mpc \in {"start", "yielded", "delegating"}
\* the cursors of the merge that are not exhausted
ActiveCursors ==
    Cardinality({i \in 1..Len(streamBuffers) : ~streamBuffers[i].exhausted})
\* the commands of stream i the consumer has received
EmittedFrom(i) == Cardinality({j \in 1..Len(result) : result[j].command[1] = i})

\* C12: when the consumer has taken K commands and stops, every source has
\* been pulled at most K + (number of active cursors) times, at most one
\* command pulled from a source is held back by the merge, and a source has
\* been read to its end only if all its commands were handed to the
\* consumer.
C12_BoundedLookahead ==
    Suspended =>
        \A i \in 1..NumStreams :
            /\ gens[i].pulls <= Len(result) + ActiveCursors
            /\ gens[i].pos - EmittedFrom(i) <= 1
            /\ gens[i].finished => EmittedFrom(i) = Len(streams[i].items)

\* Two streams or more, the consumer stops after two commands: a source has
\* commands that were never pulled, and a cursor holds a command back.
C12_Witness ==
    /\ mpc = "yielded"
    /\ NumStreams >= 2
    /\ Len(result) = 2
    /\ \E i \in 1..NumStreams : gens[i].pos < Len(streams[i].items)
    /\ \E i \in 1..NumStreams :
          i # earliest /\ streamBuffers[i].buffer # <<>>

\* ------------------------------------------------------------------------
\* Properties of the file stream
\* ------------------------------------------------------------------------
BlocksOf(line) == line.content.blocks

IsBashUse(block) == block.type = "tool_use" /\ block.name = "Bash"

\* A decoded entry as types.ts declares it: a user or assistant entry whose
\* content is an array of blocks.  A blank line is no entry.
WellFormed(line) ==
    \/ line.kind = "blank"
    \/ line.kind = "entry" /\ line.content.shape = "blocks"
WellFormedFile == \A i \in 1..Len(file) : WellFormed(file[i])

\* An assistant tool invocation: the first Bash tool_use block of an
\* assistant entry, when it carries command text.
IsToolInvocation(line) ==
    /\ line.kind = "entry" /\ line.type = "assistant"
    /\ line.content.shape = "blocks"
    /\ \E k \in 1..Len(BlocksOf(line)) :
          /\ IsBashUse(BlocksOf(line)[k])
          /\ \A h \in 1..(k - 1) : ~IsBashUse(BlocksOf(line)[h])
          /\ BlocksOf(line)[k].command \notin {<<>>, << <<>> >>}

\* A user bang-command: a user entry with a text block that, leading
\* whitespace apart, begins with "! " and goes on.
IsBangCommand(line) ==
    /\ line.kind = "entry" /\ line.type = "user"
    /\ line.content.shape = "blocks"
    /\ \E k \in 1..Len(BlocksOf(line)) :
          /\ BlocksOf(line)[k].type = "text"
          /\ \E p \in 1..Len(BlocksOf(line)[k].text) :
                /\ \A h \in 1..(p - 1) : BlocksOf(line)[k].text[h] \in Whitespace
                /\ p + 2 <= Len(BlocksOf(line)[k].text)
                /\ BlocksOf(line)[k].text[p] = "!"
                /\ BlocksOf(line)[k].text[p + 1] = " "
                /\ \E q \in (p + 2)..Len(BlocksOf(line)[k].text) :
                      BlocksOf(line)[k].text[q] \notin Whitespace

Candidates(upTo) ==
    {i \in 1..upTo : IsToolInvocation(file[i]) \/ IsBangCommand(file[i])}

\* The result blocks that reference id in the lines after line n, as
\* <<line, block>> positions.
ResultsFor(id, n) ==
    {pos \in (n + 1..Len(file)) \X (1..2) :
        /\ file[pos[1]].kind = "entry" /\ file[pos[1]].type = "user"
        /\ pos[2] <= Len(BlocksOf(file[pos[1]]))
        /\ BlocksOf(file[pos[1]])[pos[2]].type = "tool_result"
        /\ BlocksOf(file[pos[1]])[pos[2]].tool_use_id = id}

FirstResultFor(id, n) ==
    CHOOSE pos \in ResultsFor(id, n) :
        \A other \in ResultsFor(id, n) :
            \/ pos[1] < other[1]
            \/ pos[1] = other[1] /\ pos[2] <= other[2]

\* The success flag the correlation gives the invocation of id read at line
\* n: that of the first result block that references it, true without one.
ExpectedSuccess(id, n) ==
    IF ResultsFor(id, n) = {} THEN TRUE
    ELSE ~BlocksOf(file[FirstResultFor(id, n)[1]])[FirstResultFor(id, n)[2]].is_error

\* the yielded commands that come from tool invocations
FromInvocations == {j \in 1..Len(yielded) : yieldedFrom[j].id # ""}
Orphans == {j \in FromInvocations :
              ResultsFor(yieldedFrom[j].id, yieldedFrom[j].line) = {}}

\* C3: when the file stream has ended, the command yielded for each tool
\* invocation has success false if the result block that references its id
\* has the error flag, true if that block has no error flag, and true if no
\* result block references it.
C3_Correlation ==
    fpc = "done" =>
        \A j \in FromInvocations :
            yielded[j].success
                = <<ExpectedSuccess(yieldedFrom[j].id, yieldedFrom[j].line)>>

C5_AtMostOnce ==
    \A a, b \in FromInvocations :
        a # b => yieldedFrom[a].id # yieldedFrom[b].id

\* C5 witness: an ended stream that yielded the command of an invocation
\* which two result blocks reference.
C5_Witness ==
    /\ fpc = "done"
    /\ \E j \in FromInvocations :
          Cardinality(ResultsFor(yieldedFrom[j].id, yieldedFrom[j].line)) >= 2

\* C6: every command a file stream yields has its success flag set, to true
\* or to false.
C6_SuccessResolved ==
    \A j \in 1..Len(yielded) : yielded[j].success \in {<<TRUE>>, <<FALSE>>}

\* C7: when the file stream has ended, every command of an invocation that
\* no result references has been yielded with success true, and these
\* commands were yielded in the order their invocations were read.
C7_FlushAtEnd ==
    fpc = "done" =>
        /\ \A j \in Orphans : yielded[j].success = <<TRUE>>
        /\ \A j, k \in Orphans :
              j < k => yieldedFrom[j].line < yieldedFrom[k].line

\* the lines of the file that are not JSON
CorruptLines == {i \in 1..Len(file) : file[i].kind = "corrupt"}
DiagsAbout(n) == {j \in 1..Len(stderr) : stderr[j].line = n}
YieldedAt(n) == {j \in 1..Len(yielded) : yieldedFrom[j].line = n}

PendingIds(n) ==
    {idOfEntry(file[i]) : i \in
        {h \in 1..(n - 1) :
            /\ IsToolInvocation(file[h])
            /\ \A pos \in ResultsFor(idOfEntry(file[h]), h) : pos[1] >= n}}

\* Line n is a user entry made of result blocks, none of which references a
\* pending invocation.
IsUnmatchedResult(n) ==
    /\ file[n].kind = "entry" /\ file[n].type = "user"
    /\ file[n].content.shape = "blocks"
    /\ BlocksOf(file[n]) # <<>>
    /\ \A k \in 1..Len(BlocksOf(file[n])) :
          /\ BlocksOf(file[n])[k].type = "tool_result"
          /\ BlocksOf(file[n])[k].tool_use_id \notin PendingIds(n)

\* C18: the step of the file stream that reads a user entry whose result
\* blocks reference no pending invocation yields nothing, writes no
\* diagnostic, and leaves the commands yielded before as they are.
C18_UnmatchedResultIgnored ==
    [][(fpc = "reading" /\ lineNumber < Len(file)
            /\ IsUnmatchedResult(lineNumber + 1))
        => (yielded' = yielded /\ yieldedFrom' = yieldedFrom
            /\ stderr' = stderr /\ fpc' = fpc)]_vars

\* C18 witness: a result block that references an id no invocation had has
\* just been read, after a command was yielded, and the stream goes on.
C18_Witness ==
    /\ fpc = "reading"
    /\ lineNumber >= 2
    /\ IsUnmatchedResult(lineNumber)
    /\ IsToolInvocation(file[lineNumber - 1])
    /\ Len(yielded) = 1
    /\ stderr = <<>>

\* C19: every bang-command among the lines read so far has been yielded, at
\* its line, as a user command with success true.
C19_BangImmediate ==
    \A i \in 1..lineNumber :
        IsBangCommand(file[i]) =>
            \E j \in YieldedAt(i) :
                yielded[j].source = "user" /\ yielded[j].success = <<TRUE>>

\* The lines of the input, by position: line a..e starts at the beginning or
\* after a newline and ends before the next newline or at the end.
LineStarts == {1} \cup {k + 1 : k \in {h \in 1..Len(input) : input[h] = "\n"}}
LineEnd(a) ==
    IF \E k \in a..Len(input) : input[k] = "\n"
    THEN (CHOOSE k \in a..Len(input) :
            input[k] = "\n" /\ \A h \in a..(k - 1) : input[h] # "\n") - 1
    ELSE Len(input)
\* the positions of line a that hold something other than whitespace
Inked(a) == {k \in a..LineEnd(a) : input[k] \notin Whitespace}
Min(S) == CHOOSE x \in S : \A y \in S : x <= y
Max(S) == CHOOSE x \in S : \A y \in S : x >= y
\* line a without the whitespace around it
Stripped(a) == SubSeq(input, Min(Inked(a)), Max(Inked(a)))

\* The lines starting at the positions S, in order, each stripped, with
\* backslash and n between them.
RECURSIVE Rejoined(_)
Rejoined(S) ==
    IF S = {} THEN <<>>
    ELSE IF Cardinality(S) = 1 THEN Stripped(Min(S))
    ELSE Stripped(Min(S)) \o <<"\\", "n">> \o Rejoined(S \ {Min(S)})

\* C20: normalizeBashCommand returns the lines of its input that are not
\* empty once the whitespace around them is removed, each without that
\* whitespace, in their order, joined by a backslash and the letter n; an
\* input of one line comes back without the whitespace around it and
\* otherwise as it was.
C20_Normalize ==
    output # <<>> =>
        /\ output[1] = Rejoined({a \in LineStarts : Inked(a) # {}})
        /\ (\A k \in 1..Len(input) : input[k] # "\n") =>
              output[1] = IF Inked(1) = {} THEN <<>> ELSE Stripped(1)

\* C20 witness: a text of two lines with an empty line between them and
\* whitespace before the second has been normalised to the two lines.
C20_Witness ==
    /\ input = <<"a", "\n", "\n", " ", "b">>
    /\ output = << <<"a", "\\", "n", "b">> >>

\* ------------------------------------------------------------------------
\* Properties of the project stream
\* ------------------------------------------------------------------------
\* the file, of the one project read, that yielded command j comes from
FileOfYield(j) == projects[1].files[yieldedFrom[j].file]
NoFault(project) ==
    /\ project.listable
    /\ \A f \in 1..Len(project.files) : project.files[f].status = "ok"
\* the lines of file f of the project that hold a tool invocation
CommandLinesOf(project, f) ==
    {n \in 1..Len(project.files[f].lines) :
        IsToolInvocation(project.files[f].lines[n])}
YieldedOf(f, n) ==
    {j \in 1..Len(yielded) : yieldedFrom[j].file = f /\ yieldedFrom[j].line = n}

\* C13: the project stream yields the commands of a file of earlier
\* modification time before those of a file of later modification time and
\* the commands of one file in line order, whatever their timestamps; with
\* a directory and files that can all be read, every command of every file
\* has been yielded when the stream ends.
C13_MtimeOrder ==
    /\ \A j, k \in 1..Len(yielded) :
          j < k =>
            /\ FileOfYield(j).mtime <= FileOfYield(k).mtime
            /\ yieldedFrom[j].file = yieldedFrom[k].file
                  => yieldedFrom[j].line < yieldedFrom[k].line
    /\ (ppc = "done" /\ NoFault(projects[1])) =>
          \A f \in 1..Len(projects[1].files) :
              \A n \in CommandLinesOf(projects[1], f) : YieldedOf(f, n) # {}

\* C13 witness: two files listed latest first, three commands yielded, the
\* first carrying a later timestamp than the last.
C13_Witness ==
    /\ ppc = "done"
    /\ Len(projects[1].files) = 2
    /\ projects[1].files[1].mtime > projects[1].files[2].mtime
    /\ Len(yielded) = 3
    /\ yieldedFrom[1].file = 2
    /\ yieldedFrom[3].file = 1
    /\ yielded[1].timestamp > yielded[3].timestamp

\* C16: when the stream of a directory that can be listed has ended, every
\* command of every file whose stat and read succeed has been yielded,
\* whatever happened to the other files.
C16_FileFailureIsolated ==
    (ppc = "done" /\ projects[1].listable) =>
        \A f \in 1..Len(projects[1].files) :
            projects[1].files[f].status = "ok" =>
                \A n \in CommandLinesOf(projects[1], f) : YieldedOf(f, n) # {}

\* C17: the stream of a directory that cannot be listed yields nothing and,
\* once ended, has written one diagnostic, that the directory could not be
\* read; it ends, it does not throw.
C17_UnlistableDirectory ==
    (ppc # "idle" /\ ~projects[1].listable) =>
        /\ yielded = <<>>
        /\ ppc \in {"start", "done"}
        /\ ppc = "done" =>
              stderr = <<Diag("Error reading project directory", 0)>>

\* C17 witness: the stream of such a directory has ended.
C17_Witness ==
    /\ ppc = "done"
    /\ ~projects[1].listable
    /\ Len(stderr) = 1

\* ------------------------------------------------------------------------
\* Properties of the merge of project streams
\* ------------------------------------------------------------------------
\* the timestamps of the lines of a file, 0 where a line has none
StampsOf(fileRec) == {fileRec.lines[n].timestamp : n \in 1..Len(fileRec.lines)}

\* Every entry has a timestamp, the lines of each file are in
\* non-decreasing timestamp order, and of two files of a project the one
\* modified earlier holds no entry later than an entry of the other.
TimestampedInOrder(project) ==
    \A f \in 1..Len(project.files) :
        /\ 0 \notin StampsOf(project.files[f])
        /\ \A a, b \in 1..Len(project.files[f].lines) :
              a < b => project.files[f].lines[a].timestamp
                         <= project.files[f].lines[b].timestamp
        /\ \A g \in 1..Len(project.files) :
              project.files[f].mtime < project.files[g].mtime =>
                \A x \in StampsOf(project.files[f]) :
                    \A y \in StampsOf(project.files[g]) : x <= y

C11_ZeroOrOneInput ==
    /\ Len(streams) = 0 => result = <<>>
    /\ Len(streams) = 1 =>
          /\ Len(result) <= Len(streams[1].items)
          /\ result = SubSeq(streams[1].items, 1, Len(result))
          /\ mpc \in {"done", "threw"} => result = streams[1].items
    /\ (Len(projects) = 1 /\ mpc = "done") =>
          result = CommandsIn(createResilientCommandStreamEvents(projects[1]))

\* C11 witness: mergeProjectStreams over one project of two files has ended
\* after three commands.
C11_Witness ==
    /\ mpc = "done"
    /\ Len(projects) = 1
    /\ Len(projects[1].files) = 2
    /\ Len(result) = 3

\* ------------------------------------------------------------------------
\* Properties of the cursors
\* ------------------------------------------------------------------------
\* The merge of two streams or more is past initializeBuffers, at the head
\* of its loop; the cursors are as the last refill left them.
BetweenSteps == mpc \in {"yielded", "done"} /\ Len(streamBuffers) >= 2

\* C29: after initialization and between merge steps a cursor that is not
\* exhausted holds a buffered command and an exhausted cursor holds none.
C29_CursorInvariant ==
    BetweenSteps =>
        \A i \in 1..Len(streamBuffers) :
            /\ ~streamBuffers[i].exhausted => Len(streamBuffers[i].buffer) = 1
            /\ streamBuffers[i].exhausted => streamBuffers[i].buffer = <<>>

\* C29 witness: between two steps one cursor is exhausted after having
\* yielded a command, another still holds one.
C29_Witness ==
    /\ mpc = "yielded"
    /\ \E i, j \in 1..Len(streamBuffers) :
          /\ streamBuffers[i].exhausted /\ gens[i].pos >= 1
          /\ ~streamBuffers[j].exhausted

\* the cursors that hold a command to compare
Holding == {i \in 1..Len(streamBuffers) :
              ~streamBuffers[i].exhausted /\ streamBuffers[i].buffer # <<>>}

\* C30: the cursor a merge step yields from holds the smallest timestamp
\* among the cursors that hold a command, and every cursor before it in the
\* list holds a strictly greater one.
C30_TieBreak ==
    (mpc = "yielded" /\ Len(streamBuffers) >= 2) =>
        /\ earliest \in Holding
        /\ \A i \in Holding :
              /\ streamBuffers[earliest].buffer[1].timestamp
                    <= streamBuffers[i].buffer[1].timestamp
              /\ i < earliest =>
                    streamBuffers[earliest].buffer[1].timestamp
                        < streamBuffers[i].buffer[1].timestamp

\* C30 witness: two cursors held the same smallest timestamp and the merge
\* yielded from the first of them.
C30_Witness ==
    /\ mpc = "yielded"
    /\ \E i \in Holding :
          /\ i > earliest
          /\ streamBuffers[i].buffer[1].timestamp
                = streamBuffers[earliest].buffer[1].timestamp

\* C28: a command of a tool invocation is yielded only once a result block
\* that references the invocation has been read, or the file has ended.
C28_EmittedAtResult ==
    \A j \in FromInvocations :
        \/ fpc = "done"
        \/ \E pos \in ResultsFor(yieldedFrom[j].id, yieldedFrom[j].line) :
              pos[1] <= lineNumber


\* ------------------------------------------------------------------------
\* Properties of the command line
\* ------------------------------------------------------------------------
\* processCommandStream has run to its end
Finished == cli.pc \in {"returned", "exited"} /\ cli.kind # "none"

\* The command texts on stdout: a line ends with the text of its command,
\* and a command of the stream has a text of one sign.
Written == [j \in 1..Len(stdout) |-> stdout[j][Len(stdout[j])]]

TextsOf(cmds) == [j \in 1..Len(cmds) |-> cmds[j].command[1]]

IsPrefixOf(s, t) == Len(s) <= Len(t) /\ s = SubSeq(t, 1, Len(s))

NotFailed(command) == command.success # <<FALSE>>
Anything(command) == TRUE

Selected ==
    IF cliArgs.includeFailed
    THEN TextsOf(SelectSeq(streams[1].items, Anything))
    ELSE TextsOf(SelectSeq(streams[1].items, NotFailed))

C22_CountLimit ==
    (cli.pc # "start" /\ cliArgs.count > 0) =>
        /\ Len(stdout) <= cliArgs.count
        /\ cli.formats <= cliArgs.count

\* C23: once a write has returned false, processCommandStream formats and
\* writes nothing more and pulls nothing more from the stream.
C23_StopsAfterFailedWrite ==
    [][lastWrite = <<FALSE>> =>
          /\ stdout' = stdout
          /\ gens' = gens
          /\ cli'.formats = cli.formats
          /\ cli'.pc = cli.pc]_vars

\* A write failed after a successful one while the stream had more.
C23_Witness ==
    /\ cli.pc \in {"returned", "exited"}
    /\ lastWrite = <<FALSE>>
    /\ Len(stdout) >= 1
    /\ gens[1].pos < Len(streams[1].items)
    /\ ~gens[1].finished

\* C24: a call made while the latch is set returns false, writes nothing
\* and leaves the latch set; a call that catches EPIPE sets the latch and
\* returns false; a call that catches another error returns false and
\* leaves the latch unset; resetSigpipeState unsets the latch.
C24_SigpipeLatch ==
    [][/\ (cli'.calls = cli.calls + 1 /\ isSigpipeDetected) =>
              /\ lastWrite' = <<FALSE>>
              /\ stdout' = stdout
              /\ isSigpipeDetected'
       /\ (cli'.calls = cli.calls + 1 /\ ~isSigpipeDetected
                                      /\ cli'.outcome = "EPIPE") =>
              /\ lastWrite' = <<FALSE>>
              /\ stdout' = stdout
              /\ isSigpipeDetected'
       /\ (cli'.calls = cli.calls + 1 /\ ~isSigpipeDetected
                                      /\ cli'.outcome = "EIO") =>
              /\ lastWrite' = <<FALSE>>
              /\ stdout' = stdout
              /\ ~isSigpipeDetected'
       /\ (cli'.calls = cli.calls /\ cli'.outcome = "reset") =>
              ~isSigpipeDetected']_vars

\* With the latch set, a call whose write would have succeeded returned
\* false, after a line had been written.
C24_Witness ==
    /\ cli.pc = "formatter"
    /\ isSigpipeDetected
    /\ lastWrite = <<FALSE>>
    /\ cli.outcome = "ok"
    /\ Len(stdout) >= 1

C26_ExitCode ==
    Finished =>
        /\ (cli.pc = "exited" /\ cli.exit = <<2>>) <=> Len(stdout) = 0
        /\ Len(stdout) >= 1 => (cli.pc = "returned" /\ cli.exit = <<>>)

\* Exit code 2 after the first write failed on a stream that had commands.
C26_Witness ==
    /\ cli.pc = "exited"
    /\ cli.exit = <<2>>
    /\ lastWrite = <<FALSE>>
    /\ Len(streams[1].items) >= 1


\* ------------------------------------------------------------------------
\* Properties of the sorted buffer
\* ------------------------------------------------------------------------
\* Every command of every input stream is in the result exactly once and
\* the result is in non-decreasing order of timestamp.
SortedComplete ==
    /\ IsNonDecreasing(result)
    /\ Len(result) = SumTo([i \in 1..NumStreams |-> Len(streams[i].items)],
                           NumStreams)
    /\ \A i \in 1..NumStreams : \A k \in 1..Len(streams[i].items) :
          \E j \in 1..Len(result) : result[j] = streams[i].items[k]

\* C27: createSortedBuffer comes to its end, and at its end it has emitted
\* every command of every input stream exactly once in non-decreasing
\* order of timestamp, whatever the batch size.
C27_SortedBuffer ==
    /\ [](mpc = "done" => SortedComplete)
    /\ <>(mpc = "done")

\* C27, for the batch sizes from 1 on: with a batch size of at least 1
\* createSortedBuffer comes to its end, and at its end it has emitted
\* every command of every input stream exactly once in non-decreasing
\* order of timestamp, whatever the order within the inputs.
C27_SortedBufferFromOne ==
    /\ [](mpc = "done" => SortedComplete)
    /\ (sortedBuffer.bufferSize >= 1 => <>(mpc = "done"))

\* The end was reached over more than one batch, from several streams, one
\* of them with its commands out of order.
C27_Witness ==
    /\ mpc = "done"
    /\ sortedBuffer.bufferSize >= 1
    /\ sortedBuffer.bufferSize < Len(result)
    /\ NumStreams >= 2
    /\ Len(result) >= 3
    /\ \E i \in 1..NumStreams :
          /\ Len(streams[i].items) >= 2
          /\ streams[i].items[1].timestamp > streams[i].items[2].timestamp


\* ------------------------------------------------------------------------
\* Properties of the end of the merge
\* ------------------------------------------------------------------------
Ended == mpc \in {"done", "threw"}

AllExhausted ==
    /\ Len(streamBuffers) = NumStreams
    /\ \A i \in 1..NumStreams : streamBuffers[i].exhausted

\* C31: the merge of finite sources, failing or not, comes to its end; a
\* merge over cursors (two sources or more) is at its end exactly when
\* every cursor is exhausted; and at the end every command pulled from a
\* source has been emitted.
C31_Terminates ==
    /\ <>Ended
    /\ [](NumStreams >= 2 => (mpc = "done" <=> AllExhausted))
    /\ [](Ended => \A i \in 1..NumStreams : EmittedFrom(i) = gens[i].pos)

\* A merge of several sources, one of them failing after a command, has
\* ended with commands emitted.
C31_Witness ==
    /\ mpc = "done"
    /\ NumStreams >= 2
    /\ AllExhausted
    /\ Len(result) >= 2
    /\ \E i \in 1..NumStreams :
          streams[i].throws /\ Len(streams[i].items) >= 1


\* ------------------------------------------------------------------------
\* Properties of one source within the merge
\* ------------------------------------------------------------------------
\* The text of a mock command is <<i, k>>: the k-th command of stream i.
\* C32: two commands of one source are in the output in the order the
\* source yielded them, whether or not the source is ordered by timestamp.
C32_PerSourceOrder ==
    \A a, b \in 1..Len(result) :
       (a < b /\ result[a].command[1] = result[b].command[1]) =>
           result[a].command[2] < result[b].command[2]

\* Of several sources one is not ordered by timestamp, and two of its
\* commands are in the output.
C32_Witness ==
    /\ NumStreams >= 2
    /\ Len(streamBuffers) = NumStreams
    /\ \E i \in 1..NumStreams :
          /\ Len(streams[i].items) >= 2
          /\ streams[i].items[1].timestamp > streams[i].items[2].timestamp
          /\ EmittedFrom(i) >= 2
    /\ \E j \in 1..NumStreams : EmittedFrom(j) >= 1 /\ Len(streams[j].items) = 1

ExhaustedCursors ==
    {i \in 1..Len(streamBuffers) : streamBuffers[i].exhausted}

\* C37: from a cursor that is marked exhausted the merge pulls nothing
\* more (next() is not called on its generator again) and emits nothing
\* more.
C37_NoPullAfterExhausted ==
    [][\A i \in ExhaustedCursors :
          /\ gens'[i] = gens[i]
          /\ EmittedFrom(i)' = EmittedFrom(i)
          /\ streamBuffers'[i] = streamBuffers[i]]_vars

\* A cursor was exhausted by its first pull, failing, and the merge has
\* since emitted two commands of another source.
C37_Witness ==
    /\ \E i \in ExhaustedCursors :
          streams[i].throws /\ streams[i].items = <<>> /\ gens[i].pulls = 1
    /\ \E j \in 1..NumStreams : EmittedFrom(j) >= 2


\* ------------------------------------------------------------------------
\* Properties of the two modes
\* ------------------------------------------------------------------------
FailureFree == \A i \in 1..NumStreams : ~streams[i].throws
EachOrdered == \A i \in 1..NumStreams : IsNonDecreasing(streams[i].items)
BothEnded == mpc = "done" /\ "emitted" \in DOMAIN sortedBuffer

\* C38: on streams that do not fail and are each in timestamp order, the
\* sequence createSortedBuffer emits (batch size at least 1) and the
\* sequence chronologicalMerge emits are the same, commands of equal
\* timestamp included.
C38_SameSequence ==
    (BothEnded /\ FailureFree /\ EachOrdered) =>
        result = sortedBuffer.emitted

\* Both modes have run to their end on two ordered streams that hold
\* commands of the same timestamp, three commands in all.
C38_Witness ==
    /\ BothEnded /\ FailureFree /\ EachOrdered
    /\ NumStreams >= 2
    /\ Len(result) >= 3
    /\ \E a \in 1..Len(streams[1].items), b \in 1..Len(streams[2].items) :
          streams[1].items[a].timestamp = streams[2].items[b].timestamp
    /\ \E b \in 1..Len(streams[2].items) :
          streams[2].items[b].timestamp < streams[1].items[1].timestamp


\* ------------------------------------------------------------------------
\* Properties of the numbering
\* ------------------------------------------------------------------------
\* C39: the j-th line written starts with the number j, set to the right
\* in four places: the numbers run 1, 2, 3, ... without gaps, and a
\* command skipped by the success filter takes none.
C39_Numbering ==
    \A j \in 1..Len(stdout) :
       SubSeq(stdout[j], 1, 4) = <<" ", " ", " ", j>>

\* Two lines were written after the first command of the stream had been
\* skipped as failed.
C39_Witness ==
    /\ cli.pc \in {"processing", "returned"}
    /\ ~cliArgs.includeFailed
    /\ Len(stdout) >= 2
    /\ streams[1].items[1].success = <<FALSE>>
    /\ \E k \in 2..Len(streams[1].items) :
          /\ streams[1].items[k].success = <<FALSE>>
          /\ gens[1].pos > k


\* ------------------------------------------------------------------------
\* Properties of the extraction
\* ------------------------------------------------------------------------
\* the places of the Bash tool_use blocks among the blocks of a line
BashPlaces(line) ==
    {h \in 1..Len(line.content.blocks) :
        /\ line.content.blocks[h].type = "tool_use"
        /\ line.content.blocks[h].name = "Bash"}

\* the yields that come from line n and are commands of the shell tool
BashYieldsOf(n) ==
    {j \in 1..Len(yielded) :
        yieldedFrom[j].line = n /\ yielded[j].source = "bash"}

\* C33: a line yields at most one command of the shell tool; a line that
\* yields one is an assistant entry and the command is the one of the
\* first of its Bash tool_use blocks; an entry without such a block yields
\* none.
C33_FirstBashBlock ==
    \A n \in 1..lineNumber :
       /\ Cardinality(BashYieldsOf(n)) <= 1
       /\ \A j \in BashYieldsOf(n) :
             /\ file[n].kind = "entry" /\ file[n].type = "assistant"
             /\ BashPlaces(file[n]) # {}
             /\ \E first \in {file[n].content.blocks[Min(BashPlaces(file[n]))]} :
                   /\ yieldedFrom[j].id = first.id
                   /\ first.command # <<>>
                   /\ yielded[j].command = normalizeBashCommand(first.command[1])
       /\ (file[n].kind = "entry" /\ BashPlaces(file[n]) = {}) =>
             BashYieldsOf(n) = {}

\* An entry with two Bash blocks of different commands has yielded one
\* command, the first block's.
C33_Witness ==
    \E n \in 1..lineNumber :
       /\ file[n].kind = "entry"
       /\ Cardinality(BashPlaces(file[n])) = 2
       /\ Cardinality(BashYieldsOf(n)) = 1
       /\ file[n].content.blocks[1].command # file[n].content.blocks[2].command

\* C34: no command a file stream yields has empty command text.
C34_NoEmptyCommand ==
    \A j \in 1..Len(yielded) : yielded[j].command # <<>>

\* C35: a command of source user comes from a user entry whose content is
\* a string; a user entry whose content is a block sequence and an
\* assistant entry yield no such command.
C35_BangFromText ==
    \A j \in 1..Len(yielded) :
       yielded[j].source = "user" =>
          /\ file[yieldedFrom[j].line].type = "user"
          /\ file[yieldedFrom[j].line].content.shape = "string"


\* ------------------------------------------------------------------------
\* Properties of the files of one project, one after the other
\* ------------------------------------------------------------------------
LineOfYield(j) == FileOfYield(j).lines[yieldedFrom[j].line]

\* the lines of file g with a result block that references id with the
\* error flag
FailedIn(g, id) ==
    {n \in 1..Len(projects[1].files[g].lines) :
        \E b \in 1..Len(projects[1].files[g].lines[n].content.blocks) :
           LET block == projects[1].files[g].lines[n].content.blocks[b]
           IN block.type = "tool_result" /\ block.tool_use_id = id
                                         /\ block.is_error}

====
